---- MODULE Spec2Model ----
(***************************************************************************)
(* The local workspace synchronisation engine of LInk: the polling file    *)
(* watcher (FileWatcherService), its snapshot differ and the workspace     *)
(* writes it observes.  Asynchronous methods are split at their awaits:    *)
(* every action is the code that runs between two suspension points.       *)
(***************************************************************************)
EXTENDS Integers, Sequences, FiniteSets, TLC

(***************************************************************************)
(* Bounds of the model.                                                    *)
(***************************************************************************)
\* checkForChanges cycles that may be in flight together
MaxScans == 2
\* startWatching calls that may be suspended in createSnapshot together
MaxStarts == 1
\* interval timers that may exist together
MaxTimers == 2
\* the wall clock (Date.now(), File.lastModified) runs from 1 to MaxClock;
\* every workspace write advances it
MaxClock == 3
\* the reads of the persistent store in one session that are counted
MaxReads == 2

(***************************************************************************)
(* Names are sequences of characters, paths are sequences of names (the    *)
(* code joins the names with '/'; a name holds no '/').                    *)
(***************************************************************************)
NameA == <<"a", ".", "m", "d">>
NameB == <<"b", ".", "m", "d">>
NameDocs == <<"d", "o", "c", "s">>
NameBuildLog == <<"b", "u", "i", "l", "d", ".", "m", "d">>

PathA == <<NameA>>
PathDocsB == <<NameDocs, NameB>>
PathBuildLog == <<NameBuildLog>>

\* the order in which a directory enumeration yields the files
PathSeq == <<PathA, PathBuildLog, PathDocsB>>
Paths == {PathSeq[i] : i \in DOMAIN PathSeq}

\* directory capabilities (FileSystemDirectoryHandle); NoHandle is null
Handles == {"A", "B"}
NoHandle == "null"
\* the capability LocalFileSystemService holds: the Workspace Operations act on it
WorkspaceHandle == "A"

\* the sizes of files in the snapshots the differ is tried on
Sizes == {1, 2}
\* the sizes the Workspace Operations write
WriteSizes == {2}

\* listeners; the ones in Throwing throw on every event
Listeners == {"l1", "l2"}
Throwing == {"l1"}

(***************************************************************************)
(* Files and snapshots.  An entry that is not present models a missing     *)
(* file, and Map.get returning undefined.                                  *)
(***************************************************************************)
NoFile == [present |-> FALSE, size |-> 0, lastModified |-> 0]
FileMeta(s, t) == [present |-> TRUE, size |-> s, lastModified |-> t]
EmptySnapshot == [p \in Paths |-> NoFile]
Keys(snapshot) == {p \in Paths : snapshot[p].present}

excludePatterns ==
    << <<"n","o","d","e","_","m","o","d","u","l","e","s">>,
       <<".","g","i","t">>,
       <<".","D","S","_","S","t","o","r","e">>,
       <<".","v","s","c","o","d","e">>,
       <<"d","i","s","t">>,
       <<"b","u","i","l","d">>,
       <<".","n","e","x","t">>,
       <<".","n","u","x","t">>,
       <<"c","o","v","e","r","a","g","e">>,
       <<".","n","y","c","_","o","u","t","p","u","t">>,
       <<"T","h","u","m","b","s",".","d","b">> >>

\* String.prototype.startsWith
StartsWith(name, pattern) ==
    /\ Len(name) >= Len(pattern)
    /\ SubSeq(name, 1, Len(pattern)) = pattern

shouldExclude(name) ==
    \E i \in DOMAIN excludePatterns :
        name = excludePatterns[i] \/ StartsWith(name, excludePatterns[i])

\* a file the recursive scan reaches: no name on its path is skipped
Scanned(path) == \A i \in DOMAIN path : ~shouldExclude(path[i])

\* the enumeration passes the entries it skips by name without reading anything:
\* from place idx it stands before the next entry it reads, or at the end
RECURSIVE SkipExcluded(_)
SkipExcluded(idx) ==
    IF idx < Len(PathSeq) /\ ~Scanned(PathSeq[idx + 1])
    THEN SkipExcluded(idx + 1)
    ELSE idx

VARIABLES
    isWatching,       \* FileWatcherService.isWatching
    watchInterval,    \* FileWatcherService.watchInterval: a timer id, 0 is null
    lastSnapshot,     \* FileWatcherService.lastSnapshot
    directoryHandle,  \* FileWatcherService.directoryHandle
    listeners,        \* FileWatcherService.listeners, in insertion order
    timers,           \* the interval timers that exist (window.setInterval)
    fs,               \* the files under every directory capability
    clock,            \* Date.now()
    starts,           \* startWatching calls suspended in createSnapshot
    scans,            \* checkForChanges cycles in flight
    requested,        \* the latest startWatching call: its capability, and whether
                      \* it returned at once because the watcher was watching
    pendingCreate,    \* the path createFile has just created, until the next cycle starts
    tracking,         \* whether the histories below are kept
    scanFailed,       \* whether the storage has failed a traversal of a cycle
    unreported,       \* per path, the time of its last write no event has followed yet
    dirty,            \* whether a write has completed since the scan began that
                      \* filled the stored snapshot
    service,          \* LocalFileSystemService: directoryHandle, workspaceConfig
    indexedDB,        \* the handle under the key "workspace" of the store
                      \* "directories", NoHandle when there is none
    folders,          \* the folders createFolder has made under every capability
    session,          \* the history of the Handle Store's use
    explorer,         \* the directory behind the workspace capability, and what
                      \* the getFolderStructure calls on it have returned
    toolbar           \* SelectionToolbar and AITaskService: the tasks, the
                      \* component's currentTaskId and isLoading, the action in flight

vars == <<isWatching, watchInterval, lastSnapshot, directoryHandle, listeners,
          timers, fs, clock, starts, scans, requested, pendingCreate, tracking,
          scanFailed, unreported, dirty, service, indexedDB, folders, session, explorer,
          toolbar>>

localVars == <<service, indexedDB, folders, session, explorer, toolbar>>

\* the watcher, the files and their histories
worldVars == <<isWatching, watchInterval, lastSnapshot, directoryHandle,
               listeners, timers, fs, clock, starts, scans, requested,
               pendingCreate, tracking, scanFailed, unreported, dirty>>

watcherVars == <<isWatching, watchInterval, lastSnapshot, directoryHandle, listeners>>

NoPath == <<>>
NoEvents == <<>>

\* no selection-toolbar action is in flight
NoCall == [handler |-> "none", taskId |-> 0, promptTemplate |-> FALSE, currentTaskId |-> 0]

\* the toolbar as mounted and AITaskService as constructed: no task, currentTaskId
\* null (0), isLoading false; answered is the history of the tasks whose AI
\* request has returned or thrown
NoToolbar == [tasks |-> <<>>, currentTaskId |-> 0, isLoading |-> FALSE,
              call |-> NoCall, answered |-> {}]
NothingReceived == [l \in Listeners |-> NoEvents]

(***************************************************************************)
(* compareSnapshots: the events of one diff, in the order the code pushes  *)
(* them (the entries of the fresh snapshot, then the stored ones).         *)
(***************************************************************************)
Event(type, path, now) == [type |-> type, path |-> path, timestamp |-> now]

\* a differ that tells a change by the size alone
RECURSIVE CreatedOrModifiedBySize(_, _, _, _)
CreatedOrModifiedBySize(i, previous, current, now) ==
    IF i > Len(PathSeq) THEN <<>>
    ELSE LET path == PathSeq[i]
             rest == CreatedOrModifiedBySize(i + 1, previous, current, now)
         IN  IF ~current[path].present THEN rest
             ELSE IF ~previous[path].present
                  THEN <<Event("created", path, now)>> \o rest
             ELSE IF current[path].size # previous[path].size
                  THEN <<Event("modified", path, now)>> \o rest
             ELSE rest

\* a differ that compares the two entries as objects, which are never the same
RECURSIVE CreatedOrModifiedByIdentity(_, _, _, _)
CreatedOrModifiedByIdentity(i, previous, current, now) ==
    IF i > Len(PathSeq) THEN <<>>
    ELSE LET path == PathSeq[i]
             rest == CreatedOrModifiedByIdentity(i + 1, previous, current, now)
         IN  IF ~current[path].present THEN rest
             ELSE IF ~previous[path].present
                  THEN <<Event("created", path, now)>> \o rest
             ELSE <<Event("modified", path, now)>> \o rest

RECURSIVE CreatedOrModified(_, _, _, _)
CreatedOrModified(i, previous, current, now) ==
    IF i > Len(PathSeq) THEN <<>>
    ELSE LET path == PathSeq[i]
             rest == CreatedOrModified(i + 1, previous, current, now)
         IN  IF ~current[path].present THEN rest
             ELSE IF ~previous[path].present
                  THEN <<Event("created", path, now)>> \o rest
             ELSE IF \/ current[path].size # previous[path].size
                     \/ current[path].lastModified # previous[path].lastModified
                  THEN <<Event("modified", path, now)>> \o rest
             ELSE rest

RECURSIVE Deleted(_, _, _, _)
Deleted(i, previous, current, now) ==
    IF i > Len(PathSeq) THEN <<>>
    ELSE LET path == PathSeq[i]
             rest == Deleted(i + 1, previous, current, now)
         IN  IF previous[path].present /\ ~current[path].present
             THEN <<Event("deleted", path, now)>> \o rest
             ELSE rest

\* a differ that pairs a deleted path with a created one of the same size and
\* lastModified, and reports the pair as one rename
DiffEventsRenaming(previous, current, now) ==
    LET created == CreatedOrModified(1, previous, current, now)
        deleted == Deleted(1, previous, current, now)
    IN  IF /\ Len(created) = 1 /\ Len(deleted) = 1
           /\ created[1].type = "created"
           /\ current[created[1].path] = previous[deleted[1].path]
        THEN <<Event("renamed", created[1].path, now)>>
        ELSE created \o deleted

DiffEvents(previous, current, now) ==
    CreatedOrModified(1, previous, current, now) \o Deleted(1, previous, current, now)

(***************************************************************************)
(* notifyListeners: every listener is called inside its own try/catch.     *)
(* The result is what each listener has received, and whether an exception *)
(* left the method.                                                        *)
(***************************************************************************)
RECURSIVE CallListeners(_, _, _, _)
CallListeners(event, ls, i, got) ==
    IF i > Len(ls) THEN [got |-> got, threw |-> FALSE]
    ELSE CallListeners(event, ls, i + 1,
                       [got EXCEPT ![ls[i]] = Append(@, event)])

\* notifyListeners without the try/catch: the first listener that throws ends
\* the forEach
RECURSIVE CallListenersNoCatch(_, _, _, _)
CallListenersNoCatch(event, ls, i, got) ==
    IF i > Len(ls) THEN [got |-> got, threw |-> FALSE]
    ELSE LET received == [got EXCEPT ![ls[i]] = Append(@, event)]
         IN  IF ls[i] \in Throwing
             THEN [got |-> received, threw |-> TRUE]
             ELSE CallListenersNoCatch(event, ls, i + 1, received)

notifyListenersNoCatch(event, ls, got) == CallListenersNoCatch(event, ls, 1, got)

notifyListeners(event, ls, got) == CallListeners(event, ls, 1, got)

\* the loop "for (const event of events) this.notifyListeners(event)"
RECURSIVE PublishAll(_, _, _, _)
PublishAll(events, i, ls, got) ==
    IF i > Len(events) THEN [got |-> got, threw |-> FALSE]
    ELSE LET r == notifyListeners(events[i], ls, got)
         IN  IF r.threw THEN r ELSE PublishAll(events, i + 1, ls, r.got)

(***************************************************************************)
(* Processes.  A startWatching call suspended in createSnapshot holds the  *)
(* capability it scans and its place in the enumeration; a checkForChanges *)
(* cycle holds the same and its fresh snapshot and, once compareSnapshots   *)
(* has run, the events it published and what each listener received; and,  *)
(* as history, whether the files were as the stored snapshot has them when *)
(* it started, and whether a write fell into it.                           *)
(***************************************************************************)
IdleStart == [active |-> FALSE, h |-> NoHandle, idx |-> 0]
IdleScan ==
    [active |-> FALSE, h |-> NoHandle, idx |-> 0, snap |-> EmptySnapshot,
     pc |-> "idle", expect |-> NoPath, quiet |-> FALSE, touched |-> FALSE,
     events |-> NoEvents, got |-> NothingReceived]

StartSlots == 1..MaxStarts
ScanSlots == 1..MaxScans
ActiveStarts == {s \in StartSlots : starts[s].active}
ActiveScans == {i \in ScanSlots : scans[i].active}

\* the slot a new process takes
FreeStart == CHOOSE s \in StartSlots \ ActiveStarts :
                 \A u \in StartSlots \ ActiveStarts : s <= u
FreeScan == CHOOSE i \in ScanSlots \ ActiveScans :
                \A u \in ScanSlots \ ActiveScans : i <= u
\* the id window.setInterval returns
NewTimer == CHOOSE t \in (1..MaxTimers) \ timers :
                \A u \in (1..MaxTimers) \ timers : t <= u

NoReports == [p \in Paths |-> 0]

\* LocalFileSystemService before setWorkspace, and after a reload
NoService == [directoryHandle |-> NoHandle, workspaceConfig |-> FALSE]
NoFolders == [h \in Handles |-> {}]

\* the history of the Handle Store: the store reads of this session, what
\* the last getStoredDirectoryHandle call returned, whether the last
\* Workspace Operation threw the no-workspace error, the capability of the
\* last setWorkspace call, whether its put succeeded, and whether the
\* application was reloaded since
NoSession ==
    [reads |-> 0, returned |-> "unasked", threw |-> FALSE,
     set |-> NoHandle, persisted |-> FALSE, reloaded |-> FALSE]
SessionOf(h) == [NoSession EXCEPT !.set = h, !.persisted = TRUE]
\* no Document
NoDocument == [id |-> <<>>, filePath |-> <<>>, content |-> <<>>]

\* no Workspace Operation has acted on the directory: otherwise the
\* operation, its path and content, the error the storage raised and the
\* error the caller got, the Document returned, whether the workspace was
\* empty before, what deleteItem found at its path, and the paragraphs
\* saveFile made of the content for a word-processor file
NoOperation ==
    [op |-> "none", path |-> <<>>, content |-> <<>>, raised |-> "none",
     error |-> "none", document |-> NoDocument, wasEmpty |-> FALSE,
     target |-> "none", paragraphs |-> <<>>]

\* no directory is explored, and no getFolderStructure call has returned
NoExplorer ==
    [root |-> {}, built |-> FALSE, repeated |-> FALSE, first |-> <<>>, last |-> <<>>,
     done |-> NoOperation, scanned |-> FALSE, keys |-> {}]

\* the results of the earlier getFolderStructure calls are no longer held
Forgotten ==
    [explorer EXCEPT !.built = FALSE, !.repeated = FALSE, !.first = <<>>, !.last = <<>>,
                     !.scanned = FALSE, !.keys = {}]

NoRequest == [h |-> NoHandle, ignored |-> FALSE]

InitWorld(track) ==
    /\ isWatching = FALSE
    /\ watchInterval = 0
    /\ lastSnapshot = EmptySnapshot
    /\ directoryHandle = NoHandle
    /\ listeners = <<>>
    /\ timers = {}
    /\ fs = [h \in Handles |->
               IF h = WorkspaceHandle
               THEN [EmptySnapshot EXCEPT ![PathA] = FileMeta(1, 1)]
               ELSE [EmptySnapshot EXCEPT ![PathDocsB] = FileMeta(1, 1),
                                          ![PathBuildLog] = FileMeta(1, 1)]]
    /\ clock = 1
    /\ starts = [s \in StartSlots |-> IdleStart]
    /\ scans = [i \in ScanSlots |-> IdleScan]
    /\ requested = NoRequest
    /\ pendingCreate = NoPath
    /\ tracking = track
    /\ scanFailed = FALSE
    /\ unreported = NoReports
    /\ dirty = FALSE

\* the workspace has been set, and stored
InitWith(track) ==
    /\ InitWorld(track)
    /\ service = [directoryHandle |-> WorkspaceHandle, workspaceConfig |-> TRUE]
    /\ indexedDB = WorkspaceHandle
    /\ folders = NoFolders
    /\ explorer = NoExplorer
    /\ session = SessionOf(WorkspaceHandle)
    /\ toolbar = NoToolbar

Init == InitWith(FALSE)

(***************************************************************************)
(* FileWatcherService                                                      *)
(***************************************************************************)
\* startWatching without its isWatching guard
StartWatchingUnguarded(h) ==
    /\ StartSlots \ ActiveStarts # {}
    /\ Cardinality(timers) + Cardinality(ActiveStarts) < MaxTimers
    /\ directoryHandle' = h
    /\ isWatching' = TRUE
    /\ lastSnapshot' = EmptySnapshot
    /\ starts' = [starts EXCEPT ![FreeStart] =
                      [active |-> TRUE, h |-> h, idx |-> SkipExcluded(0)]]
    /\ requested' = [h |-> h, ignored |-> isWatching]
    /\ pendingCreate' = NoPath
    /\ unreported' = NoReports
    /\ dirty' = FALSE
    /\ UNCHANGED <<watchInterval, listeners, timers, fs, clock, scans, tracking, scanFailed, localVars>>

\* startWatching up to its await of createSnapshot
StartWatching(h) ==
    IF isWatching
    THEN /\ requested' = [h |-> h, ignored |-> TRUE]
         /\ UNCHANGED <<isWatching, watchInterval, lastSnapshot,
                        directoryHandle, listeners, timers, fs, clock, starts,
                        scans, pendingCreate, tracking, scanFailed, unreported, dirty, localVars>>
    ELSE /\ StartSlots \ ActiveStarts # {}
         /\ Cardinality(timers) + Cardinality(ActiveStarts) < MaxTimers
         /\ directoryHandle' = h
         /\ isWatching' = TRUE
         /\ lastSnapshot' = EmptySnapshot
         /\ starts' = [starts EXCEPT ![FreeStart] =
                           [active |-> TRUE, h |-> h, idx |-> SkipExcluded(0)]]
         /\ requested' = [h |-> h, ignored |-> FALSE]
         /\ pendingCreate' = NoPath
         /\ unreported' = NoReports
         /\ dirty' = FALSE
         /\ UNCHANGED <<watchInterval, listeners, timers, fs, clock, scans,
                        tracking, scanFailed, localVars>>

\* scanDirectory: one entry is read and set in this.lastSnapshot
StartScanStep(s) ==
    /\ starts[s].active
    /\ starts[s].idx < Len(PathSeq)
    /\ LET path == PathSeq[starts[s].idx + 1]
           file == fs[starts[s].h][path]
       IN  lastSnapshot' =
               IF Scanned(path) /\ file.present
               THEN [lastSnapshot EXCEPT ![path] = file]
               ELSE lastSnapshot
    /\ starts' = [starts EXCEPT ![s].idx = SkipExcluded(@ + 1)]
    /\ UNCHANGED <<isWatching, watchInterval, directoryHandle, listeners,
                   timers, fs, clock, scans, pendingCreate, requested,
                   tracking, scanFailed, unreported, dirty, localVars>>

\* startWatching after createSnapshot: the interval timer is set
StartFinish(s) ==
    /\ starts[s].active
    /\ starts[s].idx = Len(PathSeq)
    /\ watchInterval' = NewTimer
    /\ timers' = timers \cup {NewTimer}
    /\ starts' = [starts EXCEPT ![s] = IdleStart]
    /\ UNCHANGED <<isWatching, lastSnapshot, directoryHandle, listeners, fs,
                   clock, scans, pendingCreate, requested, tracking, scanFailed,
                   unreported, dirty, localVars>>

\* stopWatching without "this.lastSnapshot.clear()"
stopWatchingKeepsSnapshot ==
    /\ timers' = IF watchInterval # 0 THEN timers \ {watchInterval} ELSE timers
    /\ watchInterval' = 0
    /\ isWatching' = FALSE
    /\ directoryHandle' = NoHandle
    /\ requested' = NoRequest
    /\ pendingCreate' = NoPath
    /\ scans' = [i \in ScanSlots |-> [scans[i] EXCEPT !.expect = NoPath]]
    /\ UNCHANGED <<lastSnapshot, listeners, fs, clock, starts, tracking, scanFailed,
                   unreported, dirty, localVars>>

stopWatching ==
    /\ timers' = IF watchInterval # 0 THEN timers \ {watchInterval} ELSE timers
    /\ watchInterval' = 0
    /\ isWatching' = FALSE
    /\ lastSnapshot' = EmptySnapshot
    /\ directoryHandle' = NoHandle
    /\ requested' = NoRequest
    /\ pendingCreate' = NoPath
    /\ scans' = [i \in ScanSlots |-> [scans[i] EXCEPT !.expect = NoPath]]
    /\ UNCHANGED <<listeners, fs, clock, starts, tracking, scanFailed, unreported, dirty, localVars>>

\* a listener list that holds a listener once for every call
addListenerAgain(l) ==
    /\ listeners' = Append(listeners, l)
    /\ Len(listeners) < Cardinality(Listeners) + 1
    /\ UNCHANGED <<isWatching, watchInterval, lastSnapshot, directoryHandle,
                   timers, fs, clock, starts, scans, pendingCreate, requested,
                   tracking, scanFailed, unreported, dirty, localVars>>

addListener(l) ==
    /\ listeners' = IF \E i \in DOMAIN listeners : listeners[i] = l
                    THEN listeners ELSE Append(listeners, l)
    /\ UNCHANGED <<isWatching, watchInterval, lastSnapshot, directoryHandle,
                   timers, fs, clock, starts, scans, pendingCreate, requested,
                   tracking, scanFailed, unreported, dirty, localVars>>

removeListener(l) ==
    /\ listeners' = SelectSeq(listeners, LAMBDA x : x # l)
    /\ UNCHANGED <<isWatching, watchInterval, lastSnapshot, directoryHandle,
                   timers, fs, clock, starts, scans, pendingCreate, requested,
                   tracking, scanFailed, unreported, dirty, localVars>>

\* checkForChanges up to its first await: a cycle starts on this.directoryHandle
checkForChanges(forced) ==
    IF directoryHandle = NoHandle
    THEN UNCHANGED vars
    ELSE /\ ScanSlots \ ActiveScans # {}
         /\ scans' = [scans EXCEPT ![FreeScan] =
                          [active |-> TRUE, h |-> directoryHandle,
                           idx |-> SkipExcluded(0),
                           snap |-> EmptySnapshot, pc |-> "scan",
                           expect |-> IF forced THEN pendingCreate ELSE NoPath,
                           quiet |-> tracking /\ ~dirty,
                           touched |-> FALSE,
                           events |-> NoEvents, got |-> NothingReceived]]
         /\ pendingCreate' = NoPath
         /\ UNCHANGED <<isWatching, watchInterval, lastSnapshot,
                        directoryHandle, listeners, timers, fs, clock, starts,
                        requested, tracking, scanFailed, unreported, dirty, localVars>>

\* the setInterval callback
Tick(t) ==
    /\ t \in timers
    /\ checkForChanges(FALSE)

forceCheck == checkForChanges(TRUE)

\* scanDirectoryForChanges: one entry is read and set in the fresh snapshot
ScanStep(i) ==
    /\ scans[i].active
    /\ scans[i].pc = "scan"
    /\ scans[i].idx < Len(PathSeq)
    /\ LET path == PathSeq[scans[i].idx + 1]
           file == fs[scans[i].h][path]
       IN  scans' = [scans EXCEPT
                        ![i].idx = SkipExcluded(@ + 1),
                        ![i].snap = IF Scanned(path) /\ file.present
                                    THEN [@ EXCEPT ![path] = file] ELSE @]
    /\ UNCHANGED <<isWatching, watchInterval, lastSnapshot, directoryHandle,
                   listeners, timers, fs, clock, starts, pendingCreate,
                   requested, tracking, scanFailed, unreported, dirty, localVars>>

\* the kinds of failure of the storage during a traversal: handle.getFile()
\* throws, or the enumeration of a directory throws
Failures == {"file", "directory"}

\* the enumeration of the directory that holds the entry at place idx + 1 has
\* thrown: no later entry of that directory or below it is read
RECURSIVE Abandoned(_, _)
Abandoned(idx, directory) ==
    IF idx < Len(PathSeq) /\ StartsWith(PathSeq[idx + 1], directory)
    THEN Abandoned(idx + 1, directory)
    ELSE idx

\* a traversal whose failure ends the watch loop
ScanFaultStopping(i, kind) ==
    /\ scans[i].active
    /\ scans[i].pc = "scan"
    /\ scans[i].idx < Len(PathSeq)
    /\ fs[scans[i].h][PathSeq[scans[i].idx + 1]].present
    /\ scans' = [scans EXCEPT ![i] = IdleScan]
    /\ scanFailed' = TRUE
    /\ isWatching' = FALSE
    /\ timers' = timers \ {watchInterval}
    /\ watchInterval' = 0
    /\ UNCHANGED <<lastSnapshot, directoryHandle, listeners, fs, clock, starts,
                   pendingCreate, requested, tracking, unreported, dirty, localVars>>

\* scanDirectoryForChanges when the storage fails at the entry it stands
\* before.  getFile() throws: the inner catch logs it, the file is not set in
\* the fresh snapshot and the enumeration goes on.  The enumeration throws:
\* the outer catch logs it and the rest of that directory is not read; the
\* caller's enumeration goes on.
ScanFault(i, kind) ==
    /\ scans[i].active
    /\ scans[i].pc = "scan"
    /\ scans[i].idx < Len(PathSeq)
    /\ fs[scans[i].h][PathSeq[scans[i].idx + 1]].present
    /\ LET path == PathSeq[scans[i].idx + 1]
           directory == SubSeq(path, 1, Len(path) - 1)
       IN  scans' = [scans EXCEPT
                        ![i].idx = IF kind = "file" THEN SkipExcluded(@ + 1)
                                   ELSE SkipExcluded(Abandoned(@, directory))]
    /\ scanFailed' = TRUE
    /\ UNCHANGED <<isWatching, watchInterval, lastSnapshot, directoryHandle,
                   listeners, timers, fs, clock, starts, pendingCreate,
                   requested, tracking, unreported, dirty, localVars>>

EventPaths(events) == {events[k].path : k \in DOMAIN events}

\* the enumeration has ended: compareSnapshots against this.lastSnapshot
Compare(i) ==
    /\ scans[i].active
    /\ scans[i].pc = "scan"
    /\ scans[i].idx = Len(PathSeq)
    /\ LET events == DiffEvents(lastSnapshot, scans[i].snap, clock)
           r == PublishAll(events, 1, listeners, NothingReceived)
       IN  /\ scans' = [scans EXCEPT ![i] =
                            IF r.threw THEN IdleScan
                            ELSE [@ EXCEPT !.pc = "update", !.events = events,
                                           !.got = r.got]]
           /\ unreported' = [p \in Paths |->
                                IF p \in EventPaths(events) THEN 0 ELSE unreported[p]]
    /\ UNCHANGED <<isWatching, watchInterval, lastSnapshot, directoryHandle,
                   listeners, timers, fs, clock, starts, pendingCreate,
                   requested, tracking, scanFailed, dirty, localVars>>

\* "this.lastSnapshot = currentSnapshot" after the await of compareSnapshots
Update(i) ==
    /\ scans[i].active
    /\ scans[i].pc = "update"
    /\ lastSnapshot' = scans[i].snap
    /\ dirty' = scans[i].touched
    /\ scans' = [scans EXCEPT ![i] = IdleScan]
    /\ UNCHANGED <<isWatching, watchInterval, directoryHandle, listeners,
                   timers, fs, clock, starts, pendingCreate, requested,
                   tracking, scanFailed, unreported, localVars>>

(***************************************************************************)
(* Workspace Operations of LocalFileSystemService that write.  The file    *)
(* changes when the writable is closed (removeEntry for a delete); the     *)
(* capability h is the one getStoredDirectoryHandle returns.               *)
(***************************************************************************)
\* the watcher has completed startWatching(h) and nothing has stopped it
WatchRunning(h) ==
    /\ isWatching
    /\ directoryHandle = h
    /\ watchInterval # 0
    /\ ActiveStarts = {}

\* the history after a write at time now that leaves entry at path under h:
\* the running watcher owes the path an event, unless it scans no such name
\* or the entry is again the one it has stored
Tracked(h, path, now, entry) ==
    IF tracking /\ WatchRunning(h) /\ Scanned(path)
    THEN [unreported EXCEPT ![path] = IF entry = lastSnapshot[path] THEN 0 ELSE now]
    ELSE unreported

\* the history of the cycles in flight after a write: it fell into them
Touched ==
    IF tracking
    THEN [i \in ScanSlots |->
             IF scans[i].active THEN [scans[i] EXCEPT !.touched = TRUE] ELSE scans[i]]
    ELSE scans

WriteFile(h, path, size) ==
    /\ clock < MaxClock
    /\ clock' = clock + 1
    /\ fs' = [fs EXCEPT ![h][path] = FileMeta(size, clock + 1)]
    /\ unreported' = Tracked(h, path, clock + 1, FileMeta(size, clock + 1))
    /\ scans' = Touched
    /\ dirty' = tracking
    /\ UNCHANGED <<isWatching, watchInterval, lastSnapshot, directoryHandle,
                   listeners, timers, starts, requested, tracking, scanFailed>>

saveFile(h, path, size) ==
    /\ WriteFile(h, path, size)
    /\ pendingCreate' = NoPath

createFile(h, path, size) ==
    /\ WriteFile(h, path, size)
    /\ pendingCreate' = IF ~fs[h][path].present /\ WatchRunning(h) /\ Scanned(path)
                        THEN path ELSE NoPath

\* deleteItem of a file that exists
deleteItem(h, path) ==
    /\ fs[h][path].present
    /\ clock < MaxClock
    /\ clock' = clock + 1
    /\ fs' = [fs EXCEPT ![h][path] = NoFile]
    /\ unreported' = Tracked(h, path, clock + 1, NoFile)
    /\ pendingCreate' = NoPath
    /\ scans' = Touched
    /\ dirty' = tracking
    /\ UNCHANGED <<isWatching, watchInterval, lastSnapshot, directoryHandle,
                   listeners, timers, starts, requested, tracking, scanFailed>>

(***************************************************************************)
(* The Handle Store of LocalFileSystemService, and the Workspace           *)
(* Operations as a whole: each first asks getStoredDirectoryHandle.  ok    *)
(* tells whether IndexedDB answers (open, put and get succeed) or fails.   *)
(***************************************************************************)
\* storeDirectoryHandle catches every error of the store
setWorkspace(h, ok) ==
    /\ indexedDB' = IF ok THEN h ELSE indexedDB
    /\ service' = [directoryHandle |-> h, workspaceConfig |-> TRUE]
    /\ session' = [session EXCEPT !.set = h, !.persisted = ok, !.reloaded = FALSE]
    /\ explorer' = Forgotten
    /\ UNCHANGED <<worldVars, folders, toolbar>>

\* what getStoredDirectoryHandle returns
StoredHandle(ok) ==
    IF service.directoryHandle # NoHandle THEN service.directoryHandle
    ELSE IF ok THEN indexedDB
    ELSE NoHandle

\* "this.directoryHandle = result" when the store was read
Loaded(ok) ==
    IF service.directoryHandle = NoHandle /\ ok
    THEN [service EXCEPT !.directoryHandle = indexedDB]
    ELSE service

\* the history after a getStoredDirectoryHandle call
Asked(ok, threw) ==
    [session EXCEPT !.reads = IF service.directoryHandle = NoHandle /\ ok
                              THEN @ + 1 ELSE @,
                    !.returned = StoredHandle(ok),
                    !.threw = threw]

\* the call reads the store no more often than is counted
CanAsk(ok) == (service.directoryHandle = NoHandle /\ ok) => session.reads < MaxReads

getStoredDirectoryHandle(ok) ==
    /\ CanAsk(ok)
    /\ service' = Loaded(ok)
    /\ session' = Asked(ok, session.threw)
    /\ UNCHANGED <<worldVars, indexedDB, folders, explorer, toolbar>>

\* the page is loaded anew: every static field is as constructed, the store
\* and the files are kept
reload ==
    /\ service' = NoService
    /\ session' = [session EXCEPT !.reads = 0, !.returned = "unasked",
                                  !.threw = FALSE, !.reloaded = TRUE]
    /\ isWatching' = FALSE
    /\ watchInterval' = 0
    /\ lastSnapshot' = EmptySnapshot
    /\ directoryHandle' = NoHandle
    /\ listeners' = <<>>
    /\ timers' = {}
    /\ starts' = [s \in StartSlots |-> IdleStart]
    /\ scans' = [i \in ScanSlots |-> IdleScan]
    /\ requested' = NoRequest
    /\ pendingCreate' = NoPath
    /\ unreported' = NoReports
    /\ dirty' = FALSE
    /\ explorer' = [Forgotten EXCEPT !.done = NoOperation]
    /\ toolbar' = NoToolbar
    /\ UNCHANGED <<fs, clock, tracking, scanFailed, indexedDB, folders>>

createFolder(h, name) ==
    /\ folders' = [folders EXCEPT ![h] = @ \cup {name}]
    /\ UNCHANGED <<worldVars, explorer, toolbar>>

Operations ==
    {"getFolderStructure", "readFile", "saveFile", "createFile", "createFolder",
     "deleteItem"}

\* a Workspace Operation that goes on under the picked capability when
\* getStoredDirectoryHandle returns nothing
WorkspaceOperationUnchecked(op, ok, path, size) ==
    /\ CanAsk(ok)
    /\ service' = Loaded(ok)
    /\ session' = Asked(ok, FALSE)
    /\ UNCHANGED indexedDB
    /\ LET h == IF StoredHandle(ok) = NoHandle THEN WorkspaceHandle
                ELSE StoredHandle(ok)
       IN  CASE op = "saveFile" ->
                    saveFile(h, path, size) /\ UNCHANGED <<folders, explorer, toolbar>>
             [] op = "createFile" ->
                    createFile(h, path, size) /\ UNCHANGED <<folders, explorer, toolbar>>
             [] op = "deleteItem" /\ fs[h][path].present ->
                    deleteItem(h, path) /\ UNCHANGED <<folders, explorer, toolbar>>
             [] op = "createFolder" ->
                    createFolder(h, Head(path))
             [] OTHER ->
                    UNCHANGED <<worldVars, folders, explorer, toolbar>>

\* a Workspace Operation on path: it throws when getStoredDirectoryHandle
\* returns nothing, and acts under the returned capability otherwise
WorkspaceOperation(op, ok, path, size) ==
    /\ CanAsk(ok)
    /\ service' = Loaded(ok)
    /\ session' = Asked(ok, StoredHandle(ok) = NoHandle)
    /\ UNCHANGED indexedDB
    /\ LET h == StoredHandle(ok)
       IN  IF h = NoHandle
           THEN UNCHANGED <<worldVars, folders, explorer, toolbar>>
           ELSE CASE op = "saveFile" ->
                         saveFile(h, path, size) /\ UNCHANGED <<folders, explorer, toolbar>>
                  [] op = "createFile" ->
                         createFile(h, path, size) /\ UNCHANGED <<folders, explorer, toolbar>>
                  [] op = "deleteItem" /\ fs[h][path].present ->
                         deleteItem(h, path) /\ UNCHANGED <<folders, explorer, toolbar>>
                  [] op = "createFolder" ->
                         createFolder(h, Head(path))
                  [] OTHER ->
                         UNCHANGED <<worldVars, folders, explorer, toolbar>>

\* the watcher's lifecycle and its races, while the user creates new files
\* that the watcher scans
Next ==
    \/ \E h \in Handles : StartWatching(h)
    \/ \E s \in StartSlots : StartScanStep(s)
    \/ \E s \in StartSlots : StartFinish(s)
    \/ stopWatching
    \/ \E t \in timers : Tick(t)
    \/ forceCheck
    \/ \E i \in ScanSlots : ScanStep(i)
    \/ \E i \in ScanSlots : Compare(i)
    \/ \E i \in ScanSlots : Update(i)
    \/ \E path \in Paths, size \in WriteSizes :
           /\ ~fs[WorkspaceHandle][path].present
           /\ Scanned(path)
           /\ createFile(WorkspaceHandle, path, size)
           /\ UNCHANGED localVars

Spec == Init /\ [][Next]_vars

\* the same lifecycle and races while nothing writes to the filesystem
NextQuiet ==
    \/ \E h \in Handles : StartWatching(h)
    \/ \E s \in StartSlots : StartScanStep(s)
    \/ \E s \in StartSlots : StartFinish(s)
    \/ stopWatching
    \/ \E t \in timers : Tick(t)
    \/ forceCheck
    \/ \E i \in ScanSlots : ScanStep(i)
    \/ \E i \in ScanSlots : Compare(i)
    \/ \E i \in ScanSlots : Update(i)

SpecQuiet == Init /\ [][NextQuiet]_vars

(***************************************************************************)
(* The watcher under fair scheduling: the event loop runs every timer      *)
(* callback and resumes every suspended call; the user is free to write or *)
(* not.  The histories of unreported writes are kept.                      *)
(***************************************************************************)
InitLive == InitWith(TRUE)

\* a suspended call is resumed
StartResume(s) == StartScanStep(s) \/ StartFinish(s)
ScanResume(i) == ScanStep(i) \/ Compare(i) \/ Update(i)

Resume ==
    \/ \E s \in StartSlots : StartResume(s)
    \/ \E i \in ScanSlots : ScanResume(i)

Timer == \E t \in timers : Tick(t)

NextLive ==
    \/ StartWatching(WorkspaceHandle)
    \/ Timer
    \/ Resume
    \/ \E path \in Paths, size \in WriteSizes :
           saveFile(WorkspaceHandle, path, size) /\ UNCHANGED localVars
    \/ \E path \in Paths, size \in WriteSizes :
           createFile(WorkspaceHandle, path, size) /\ UNCHANGED localVars
    \/ \E path \in Paths :
           deleteItem(WorkspaceHandle, path) /\ UNCHANGED localVars

SpecLive ==
    /\ InitLive
    /\ [][NextLive]_vars
    /\ WF_vars(Timer)
    /\ \A s \in StartSlots : WF_vars(StartResume(s))
    /\ \A i \in ScanSlots : WF_vars(ScanResume(i))

(***************************************************************************)
(* The Handle Store from the first start of the application: nothing is    *)
(* set or stored.                                                          *)
(***************************************************************************)
InitStore ==
    /\ InitWorld(FALSE)
    /\ service = NoService
    /\ indexedDB = NoHandle
    /\ folders = NoFolders
    /\ explorer = NoExplorer
    /\ session = NoSession
    /\ toolbar = NoToolbar

NextStore ==
    \/ \E h \in Handles, ok \in BOOLEAN : setWorkspace(h, ok)
    \/ \E ok \in BOOLEAN : getStoredDirectoryHandle(ok)
    \/ reload
    \/ \E op \in Operations, ok \in BOOLEAN, size \in WriteSizes :
           WorkspaceOperation(op, ok, PathDocsB, size)

SpecStore == InitStore /\ [][NextStore]_vars

(***************************************************************************)
(* The Tree Builder of LocalFileSystemService.  A name is the sequence of  *)
(* its characters; "e_acute" is the letter U+00E9 and "acute" the          *)
(* combining mark U+0301, so that <<"e", "acute">> and <<"e_acute">> are   *)
(* two spellings of one letter.                                            *)
(***************************************************************************)
MaxEntries == 3

\* the names of the entries the modelled directories are made of
EntryNames ==
    [aMd      |-> <<"a", ".", "m", "d">>,
     upperAMd |-> <<"A", ".", "m", "d">>,
     upperBTxt |-> <<"B", ".", "t", "x", "t">>,
     bJs      |-> <<"b", ".", "j", "s">>,
     dotMd    |-> <<".", "m", "d">>,
     eAcuteMd |-> <<"e_acute", ".", "m", "d">>,
     eCombiningMd |-> <<"e", "acute", ".", "m", "d">>,
     dotGit   |-> <<".", "g", "i", "t">>,
     docs     |-> <<"d", "o", "c", "s">>,
     ab       |-> <<"a", "b">>]

\* workspaceConfig.excludePatterns
workspaceExcludePatterns ==
    {<<"n", "o", "d", "e", "_", "m", "o", "d", "u", "l", "e", "s">>,
     <<".", "g", "i", "t">>,
     <<".", "D", "S", "_", "S", "t", "o", "r", "e">>}

\* workspaceConfig.watchedExtensions
watchedExtensions ==
    {<<".", "m", "d">>,
     <<".", "m", "a", "r", "k", "d", "o", "w", "n">>,
     <<".", "t", "x", "t">>,
     <<".", "d", "o", "c", "x">>,
     <<".", "d", "o", "c">>}

\* String.prototype.includes
includes(name, pattern) ==
    \E i \in 0..(Len(name) - Len(pattern)) :
        SubSeq(name, i + 1, i + Len(pattern)) = pattern

\* String.prototype.startsWith
startsWith(name, pattern) ==
    /\ Len(pattern) <= Len(name)
    /\ SubSeq(name, 1, Len(pattern)) = pattern

\* String.prototype.lastIndexOf, counted from 0, -1 when there is none
lastIndexOf(name, char) ==
    LET at == {i \in 1..Len(name) : name[i] = char}
    IN  IF at = {} THEN -1 ELSE (CHOOSE i \in at : \A j \in at : j <= i) - 1

\* LocalFileSystemService.shouldExclude: nothing is excluded while
\* workspaceConfig is null
shouldExcludeEntry(workspaceConfig, name) ==
    /\ workspaceConfig
    /\ \E pattern \in workspaceExcludePatterns : includes(name, pattern)

getFileExtension(fileName) ==
    LET lastDot == lastIndexOf(fileName, ".")
    IN  IF lastDot > 0 THEN SubSeq(fileName, lastDot + 1, Len(fileName)) ELSE <<>>

\* the UTF-16 code unit of a character
charCodeAt ==
    [c \in {".", "1", "A", "B", "a", "b", "c", "d", "e", "g", "i", "j", "m", "o",
            "p", "q", "r", "s", "t", "x", "l", "u", "e_acute", "acute"} |->
        CASE c = "." -> 46 [] c = "1" -> 49 [] c = "l" -> 108 [] c = "u" -> 117 [] c = "p" -> 112 [] c = "q" -> 113
          [] c = "r" -> 114 [] c = "A" -> 65 [] c = "B" -> 66 [] c = "a" -> 97
          [] c = "b" -> 98 [] c = "c" -> 99 [] c = "d" -> 100 [] c = "e" -> 101
          [] c = "g" -> 103 [] c = "i" -> 105 [] c = "j" -> 106 [] c = "m" -> 109
          [] c = "o" -> 111 [] c = "s" -> 115 [] c = "t" -> 116 [] c = "x" -> 120
          [] c = "e_acute" -> 233 [] c = "acute" -> 769]

toLowerCase(c) == CASE c = "A" -> "a" [] c = "B" -> "b" [] OTHER -> c

\* the canonical composition of a name: a letter and its combining mark
\* become the one character
RECURSIVE Composed(_)
Composed(name) ==
    IF name = <<>> THEN <<>>
    ELSE IF Len(name) >= 2 /\ name[1] = "e" /\ name[2] = "acute"
    THEN <<"e_acute">> \o Composed(SubSeq(name, 3, Len(name)))
    ELSE <<Head(name)>> \o Composed(Tail(name))

\* the order of two sequences of numbers: -1, 0 or 1
RECURSIVE CompareKeys(_, _)
CompareKeys(k, l) ==
    IF k = <<>> THEN (IF l = <<>> THEN 0 ELSE -1)
    ELSE IF l = <<>> THEN 1
    ELSE IF Head(k) < Head(l) THEN -1
    ELSE IF Head(k) > Head(l) THEN 1
    ELSE CompareKeys(Tail(k), Tail(l))

\* the letters in the order of the collation, punctuation first
Alphabet ==
    <<".", "1", "a", "b", "c", "d", "e", "g", "i", "j", "l", "m", "o", "p", "q", "r",
      "s", "t", "u", "x">>

\* the three weights the collation gives a character: its letter, its
\* accent, its case
Weights(c) ==
    LET base == IF c = "e_acute" THEN "e" ELSE toLowerCase(c)
    IN  [primary |-> CHOOSE i \in 1..Len(Alphabet) : Alphabet[i] = base,
         secondary |-> IF c = "e_acute" THEN 1 ELSE 0,
         tertiary |-> IF c \in {"A", "B"} THEN 1 ELSE 0]

\* a comparison of names by their code units
localeCompareByCodeUnit(a, b) ==
    CompareKeys([i \in 1..Len(a) |-> charCodeAt[a[i]]],
                [i \in 1..Len(b) |-> charCodeAt[b[i]]])

\* String.prototype.localeCompare in the default collation: canonically
\* equivalent names compare as equal; letters decide first, then accents,
\* then case, lower case first
localeCompare(a, b) ==
    LET x == Composed(a)
        y == Composed(b)
        key(n, level) == [i \in 1..Len(n) |-> Weights(n[i])[level]]
    IN  IF CompareKeys(key(x, "primary"), key(y, "primary")) # 0
        THEN CompareKeys(key(x, "primary"), key(y, "primary"))
        ELSE IF CompareKeys(key(x, "secondary"), key(y, "secondary")) # 0
        THEN CompareKeys(key(x, "secondary"), key(y, "secondary"))
        ELSE CompareKeys(key(x, "tertiary"), key(y, "tertiary"))

\* the comparator of the sort in buildFolderTree
CompareNodes(a, b) ==
    IF a.type # b.type
    THEN (IF a.type = "folder" THEN -1 ELSE 1)
    ELSE localeCompare(a.name, b.name)

\* Array.prototype.sort is stable: a node goes behind the last node that is
\* not behind it
Inserted(sorted, node) ==
    LET before == {i \in 1..Len(sorted) : CompareNodes(sorted[i], node) <= 0}
        k == IF before = {} THEN 0 ELSE CHOOSE i \in before : \A j \in before : j <= i
    IN  SubSeq(sorted, 1, k) \o <<node>> \o SubSeq(sorted, k + 1, Len(sorted))

RECURSIVE Sorted(_)
Sorted(nodes) ==
    IF nodes = <<>> THEN <<>>
    ELSE Inserted(Sorted(SubSeq(nodes, 1, Len(nodes) - 1)), nodes[Len(nodes)])

\* a path that is the name alone
CurrentPathOfName(parentPath, name) == <<name>>

\* "parentPath ? `${parentPath}/${name}` : name"
CurrentPath(parentPath, name) == Append(parentPath, name)

\* buildFolderTree on the entries in the order directoryHandle.entries()
\* yields them, under this.workspaceConfig (set, or null); a path is the
\* sequence of the names on it.  getFile throws
\* on an entry that is not readable, and the catch around the loop ends the
\* enumeration of that directory with the nodes pushed so far; a folder
\* whose enumeration throws has no children.
RECURSIVE buildFolderTree(_, _, _)
RECURSIVE Pushed(_, _, _)
Pushed(workspaceConfig, entries, parentPath) ==
    IF entries = <<>> THEN <<>>
    ELSE LET entry == Head(entries)
             currentPath == CurrentPath(parentPath, entry.name)
             extension == getFileExtension(entry.name)
             rest == Pushed(workspaceConfig, Tail(entries), parentPath)
         IN  IF shouldExcludeEntry(workspaceConfig, entry.name) THEN rest
             ELSE IF entry.kind = "directory"
             THEN <<[id |-> currentPath, name |-> entry.name, path |-> currentPath,
                     type |-> "folder",
                     children |-> IF entry.readable
                                  THEN buildFolderTree(workspaceConfig, entry.children,
                                                       currentPath)
                                  ELSE <<>>]>> \o rest
             ELSE IF ~entry.readable THEN <<>>
             ELSE IF workspaceConfig /\ extension \in watchedExtensions
             THEN <<[id |-> currentPath, name |-> entry.name, path |-> currentPath,
                     type |-> "file", extension |-> extension,
                     size |-> Len(entry.content),
                     lastModified |-> entry.lastModified]>> \o rest
             ELSE rest

buildFolderTree(workspaceConfig, entries, parentPath) ==
    Sorted(Pushed(workspaceConfig, entries, parentPath))

\* the entries of a directory and of its folders, in every order an
\* enumeration can yield them
RECURSIVE Enumerations(_)
Enumerations(directory) ==
    IF directory = {} THEN {<<>>}
    ELSE UNION {{<<[e EXCEPT !.children = c]>> \o rest :
                    c \in Enumerations(e.children),
                    rest \in Enumerations(directory \ {e})} : e \in directory}

\* getFolderStructure under the capability of the explored directory
getFolderStructure(ok, entries) ==
    /\ CanAsk(ok)
    /\ service' = Loaded(ok)
    /\ session' = Asked(ok, StoredHandle(ok) = NoHandle)
    /\ UNCHANGED <<worldVars, indexedDB, folders, toolbar>>
    /\ IF StoredHandle(ok) = NoHandle
       THEN UNCHANGED explorer
       ELSE LET nodes == buildFolderTree(service.workspaceConfig, entries, <<>>)
            IN  explorer' = [explorer EXCEPT
                                !.built = TRUE,
                                !.repeated = explorer.built,
                                !.first = IF explorer.built THEN @ ELSE nodes,
                                !.last = nodes]

\* removeEntry on an entry of the root
removeEntry(entry) ==
    /\ explorer' = [Forgotten EXCEPT !.root = @ \ {entry}]
    /\ UNCHANGED <<worldVars, service, indexedDB, folders, session, toolbar>>

\* a file with its content, and a folder with its entries
File(name, content, lastModified) ==
    [name |-> name, kind |-> "file", children |-> {}, content |-> content,
     lastModified |-> lastModified, readable |-> TRUE]
FileEntry(name) == File(name, <<"#">>, 1)
FolderEntry(name, children) ==
    [name |-> name, kind |-> "directory", children |-> children, content |-> <<>>,
     lastModified |-> 0, readable |-> TRUE]

\* the directories the workspace capability may stand for
Directories ==
    LET N == EntryNames
        inDocs == {FileEntry(N.aMd), FolderEntry(N.ab, {}),
                   FolderEntry(N.dotGit, {FileEntry(N.aMd)})}
        plain == {FileEntry(N.aMd), FileEntry(N.upperAMd), FileEntry(N.upperBTxt),
                  FileEntry(N.bJs), FileEntry(N.dotMd), FileEntry(N.eAcuteMd),
                  FileEntry(N.eCombiningMd),
                  FolderEntry(N.dotGit, {FileEntry(N.aMd)})}
        docs == {{}} \cup {{FolderEntry(N.docs, c)} : c \in SUBSET inDocs}
    IN  {d \in {p \cup f : p \in SUBSET plain, f \in docs} : Cardinality(d) <= MaxEntries}

InitTree ==
    /\ InitWorld(FALSE)
    /\ service = [directoryHandle |-> WorkspaceHandle, workspaceConfig |-> TRUE]
    /\ indexedDB = WorkspaceHandle
    /\ folders = NoFolders
    /\ session = SessionOf(WorkspaceHandle)
    /\ toolbar = NoToolbar
    /\ \E d \in Directories : explorer = [NoExplorer EXCEPT !.root = d]

NextTree ==
    \/ \E ok \in BOOLEAN, entries \in Enumerations(explorer.root) :
           getFolderStructure(ok, entries)
    \/ \E entry \in explorer.root : removeEntry(entry)
    \/ reload
    \/ setWorkspace(WorkspaceHandle, TRUE)

SpecTree == InitTree /\ [][NextTree]_vars

(***************************************************************************)
(* The Workspace Operations on the directory behind the capability: the    *)
(* resolution of a path one segment at a time, with and without creation,  *)
(* and what is written and read.  A content is the sequence of its code    *)
(* units; "feff" is the byte order mark and "d800" a lone surrogate.       *)
(***************************************************************************)
\* the entries of a directory that are called name
Named(directory, name) == {e \in directory : e.name = name}

\* the file path as the code has it: the names joined with '/'
RECURSIVE Joined(_)
Joined(path) ==
    IF path = <<>> THEN <<>>
    ELSE IF Len(path) = 1 THEN Head(path)
    ELSE Head(path) \o <<"/">> \o Joined(Tail(path))

\* what writable.write(string) stores: the string as a USVString, a lone
\* surrogate replaced by U+FFFD
Written(content) ==
    [i \in 1..Len(content) |-> IF content[i] = "d800" THEN "fffd" ELSE content[i]]

\* file.text(): UTF-8 decode, which drops a leading byte order mark
Text(stored) ==
    IF stored # <<>> /\ Head(stored) = "feff" THEN Tail(stored) ELSE stored

\* createWordFile: the container that holds the content
WordFile(content) == <<"PK">> \o Written(content)

\* content.split('\n')
RECURSIVE split(_)
split(content) ==
    LET at == {i \in 1..Len(content) : content[i] = "\n"}
        first == CHOOSE i \in at : \A j \in at : i <= j
    IN  IF at = {} THEN <<content>>
        ELSE <<SubSeq(content, 1, first - 1)>>
                 \o split(SubSeq(content, first + 1, Len(content)))

\* line.trim()
RECURSIVE trim(_)
trim(line) ==
    IF line = <<>> THEN line
    ELSE IF Head(line) = " " THEN trim(Tail(line))
    ELSE IF line[Len(line)] = " " THEN trim(SubSeq(line, 1, Len(line) - 1))
    ELSE line

\* new Paragraph({heading, children}): heading 0 is a paragraph with no
\* heading, and children are the texts of its runs
Paragraph(heading, children) == [heading |-> heading, children |-> children]

\* the branches of the loop of parseMarkdownToWordParagraphs on one line
ParagraphOf(line) ==
    IF trim(line) = <<>> THEN Paragraph(0, <<>>)
    ELSE IF StartsWith(line, <<"#", " ">>)
    THEN Paragraph(1, <<SubSeq(line, 3, Len(line))>>)
    ELSE IF StartsWith(line, <<"#", "#", " ">>)
    THEN Paragraph(2, <<SubSeq(line, 4, Len(line))>>)
    ELSE IF StartsWith(line, <<"#", "#", "#", " ">>)
    THEN Paragraph(3, <<SubSeq(line, 5, Len(line))>>)
    ELSE Paragraph(0, <<line>>)

\* parseMarkdownToWordParagraphs inside createWordFile.  Every branch of its
\* loop calls require('docx'): where the bundle runs with no require (the
\* browser, for a module the bundler left as it is) the call throws a
\* ReferenceError, which createWordFile's catch replaces by a new Error.
parseMarkdownToWordParagraphs(required, content) ==
    LET lines == split(content)
    IN  IF required
        THEN [error |-> "none",
              paragraphs |-> [k \in 1..Len(lines) |-> ParagraphOf(lines[k])]]
        ELSE [error |-> "WordFileError", paragraphs |-> <<>>]

\* fileName.replace(/\.[^/.]+$/, ''): the name without its last extension
Stem(fileName) ==
    LET lastDot == lastIndexOf(fileName, ".")
    IN  IF lastDot >= 0 /\ lastDot + 1 < Len(fileName)
        THEN SubSeq(fileName, 1, lastDot) ELSE fileName

\* the placeholder createFile writes for an empty content
Template(fileName) == <<"#", " ">> \o Stem(fileName) \o <<"\n", "\n", "placeholder">>

\* a write that leaves the written file alone in its folder
RECURSIVE FileWrittenAlone(_, _, _, _)
FileWrittenAlone(directory, path, stored, now) ==
    LET name == Head(path)
        found == Named(directory, name)
        entry == CHOOSE e \in found : TRUE
    IN  IF Len(path) = 1
        THEN [error |-> "none", directory |-> {File(name, stored, now)}]
        ELSE LET folder == IF found = {} THEN FolderEntry(name, {}) ELSE entry
                 inner == FileWrittenAlone(folder.children, Tail(path), stored, now)
             IN  [error |-> inner.error,
                  directory |-> (directory \ found)
                                   \cup {[folder EXCEPT !.children = inner.directory]}]

\* getFileHandle(directoryHandle, path, create) and the write that follows:
\* the directory afterwards, and the error the storage raised.  The folders
\* created on the way stay when a later segment fails.
RECURSIVE FileWritten(_, _, _, _)
FileWritten(directory, path, stored, now) ==
    LET name == Head(path)
        found == Named(directory, name)
        entry == CHOOSE e \in found : TRUE
    IN  IF Len(path) = 1
        THEN IF found # {} /\ entry.kind = "directory"
             THEN [error |-> "TypeMismatchError", directory |-> directory]
             ELSE [error |-> "none",
                   directory |-> (directory \ found) \cup {File(name, stored, now)}]
        ELSE IF found # {} /\ entry.kind = "file"
        THEN [error |-> "TypeMismatchError", directory |-> directory]
        ELSE LET folder == IF found = {} THEN FolderEntry(name, {}) ELSE entry
                 inner == FileWritten(folder.children, Tail(path), stored, now)
             IN  [error |-> inner.error,
                  directory |-> (directory \ found)
                                   \cup {[folder EXCEPT !.children = inner.directory]}]

\* getDirectoryHandle(directoryHandle, folderPath, true)
RECURSIVE FolderCreated(_, _)
FolderCreated(directory, path) ==
    IF path = <<>> THEN [error |-> "none", directory |-> directory]
    ELSE LET name == Head(path)
             found == Named(directory, name)
             entry == CHOOSE e \in found : TRUE
         IN  IF found # {} /\ entry.kind = "file"
             THEN [error |-> "TypeMismatchError", directory |-> directory]
             ELSE LET folder == IF found = {} THEN FolderEntry(name, {}) ELSE entry
                      inner == FolderCreated(folder.children, Tail(path))
                  IN  [error |-> inner.error,
                       directory |-> (directory \ found)
                                        \cup {[folder EXCEPT !.children = inner.directory]}]

\* the resolution of a path without creation: the entry it reaches, or the
\* error the storage raises
RECURSIVE Resolved(_, _)
Resolved(directory, path) ==
    LET name == Head(path)
        found == Named(directory, name)
        entry == CHOOSE e \in found : TRUE
    IN  IF found = {} THEN [error |-> "NotFoundError", entry |-> FolderEntry(<<>>, {})]
        ELSE IF Len(path) = 1 THEN [error |-> "none", entry |-> entry]
        ELSE IF entry.kind = "file"
        THEN [error |-> "TypeMismatchError", entry |-> entry]
        ELSE Resolved(entry.children, Tail(path))

\* removeEntry that empties a folder and leaves the folder itself
RECURSIVE EntryRemovedKeepingFolder(_, _)
EntryRemovedKeepingFolder(directory, path) ==
    LET name == Head(path)
        found == Named(directory, name)
        entry == CHOOSE e \in found : TRUE
    IN  IF found = {} THEN [error |-> "NotFoundError", directory |-> directory]
        ELSE IF Len(path) = 1
        THEN [error |-> "none",
              directory |-> IF entry.kind = "directory"
                            THEN (directory \ found) \cup {[entry EXCEPT !.children = {}]}
                            ELSE directory \ found]
        ELSE IF entry.kind = "file"
        THEN [error |-> "TypeMismatchError", directory |-> directory]
        ELSE LET inner == EntryRemovedKeepingFolder(entry.children, Tail(path))
             IN  [error |-> inner.error,
                  directory |-> (directory \ found)
                                   \cup {[entry EXCEPT !.children = inner.directory]}]

\* removeEntry(itemName, {recursive: true}) under the resolved parent
RECURSIVE EntryRemoved(_, _)
EntryRemoved(directory, path) ==
    LET name == Head(path)
        found == Named(directory, name)
        entry == CHOOSE e \in found : TRUE
    IN  IF found = {} THEN [error |-> "NotFoundError", directory |-> directory]
        ELSE IF Len(path) = 1 THEN [error |-> "none", directory |-> directory \ found]
        ELSE IF entry.kind = "file"
        THEN [error |-> "TypeMismatchError", directory |-> directory]
        ELSE LET inner == EntryRemoved(entry.children, Tail(path))
             IN  [error |-> inner.error,
                  directory |-> (directory \ found)
                                   \cup {[entry EXCEPT !.children = inner.directory]}]


\* a Workspace Operation on the directory as a whole: it asks
\* getStoredDirectoryHandle, throws when there is no capability, and leaves
\* the directory and the record of what it did.  A write makes the trees
\* built before it stale.
Operated(op, ok, wrote, root, done) ==
    /\ CanAsk(ok)
    /\ service' = Loaded(ok)
    /\ session' = Asked(ok, StoredHandle(ok) = NoHandle)
    /\ UNCHANGED <<worldVars, indexedDB, folders, toolbar>>
    /\ explorer' =
           IF StoredHandle(ok) = NoHandle
           THEN [explorer EXCEPT !.done = [NoOperation EXCEPT !.op = op,
                                                            !.error = "NoWorkspaceError"]]
           ELSE [(IF wrote THEN Forgotten ELSE explorer) EXCEPT
                    !.root = root,
                    !.done = [done EXCEPT !.op = op, !.wasEmpty = (explorer.root = {})]]

WordExtensions == {<<".", "d", "o", "c", "x">>, <<".", "d", "o", "c">>}

\* readWordFile without the fallback to plain text
readWordFileStrict(stored, changed) ==
    IF changed THEN [error |-> "NotReadableError", raised |-> "NotReadableError",
                     content |-> <<>>]
    ELSE IF stored # <<>> /\ Head(stored) = "PK"
    THEN [error |-> "none", raised |-> "none", content |-> Tail(stored)]
    ELSE [error |-> "FormatDecodeError", raised |-> "none", content |-> <<>>]

\* readWordFile: the storage error of a failed read is caught, and when the
\* plain-text read fails too a new Error replaces it; a file that is not a
\* container is read as plain text
readWordFile(stored, changed) ==
    IF changed THEN [error |-> "FormatDecodeError", raised |-> "NotReadableError",
                     content |-> <<>>]
    ELSE [error |-> "none", raised |-> "none",
          content |-> IF stored # <<>> /\ Head(stored) = "PK"
                      THEN Tail(stored) ELSE Text(stored)]

\* readFile that resolves its path with creation
readFileCreating(ok, denied, changed, filePath) ==
    LET r == FileWritten(explorer.root, filePath, <<>>, clock)
    IN  Operated("readFile", ok, FALSE, r.directory,
                 [NoOperation EXCEPT
                     !.path = filePath, !.raised = r.error, !.error = r.error,
                     !.document = [id |-> filePath, filePath |-> filePath,
                                   content |-> <<>>]])

\* readFile(filePath); denied: the storage refuses the capability; changed:
\* the file changes on disk after getFile, so that reading its bytes fails
readFile(ok, denied, changed, filePath) ==
    LET r == Resolved(explorer.root, filePath)
        extension == getFileExtension(Joined(filePath))
        read == IF extension \in WordExtensions
                THEN readWordFile(r.entry.content, changed)
                ELSE IF changed
                THEN [error |-> "NotReadableError", raised |-> "NotReadableError",
                      content |-> <<>>]
                ELSE [error |-> "none", raised |-> "none",
                      content |-> Text(r.entry.content)]
        raised == IF denied THEN "NotAllowedError"
                  ELSE IF r.error # "none" THEN r.error
                  ELSE IF r.entry.kind = "directory" THEN "TypeMismatchError"
                  ELSE IF ~r.entry.readable THEN "NotAllowedError"
                  ELSE read.raised
        failed == denied \/ r.error # "none" \/ r.entry.kind = "directory"
                     \/ ~r.entry.readable
    IN  Operated("readFile", ok, FALSE, explorer.root,
                 [NoOperation EXCEPT
                     !.path = filePath,
                     !.raised = raised,
                     !.error = IF failed THEN raised ELSE read.error,
                     !.document = IF failed \/ read.error # "none" THEN NoDocument
                                  ELSE [id |-> filePath, filePath |-> filePath,
                                        content |-> read.content]])

\* saveFile(document) on the directory; required: require is defined where
\* the bundle runs.  When createWordFile throws, the file getFileHandle has
\* created stays, empty, and a file that existed keeps its content: the
\* writable is never closed.
saveFileAt(ok, denied, required, filePath, content) ==
    LET extension == getFileExtension(Joined(filePath))
        word == extension = <<".", "d", "o", "c", "x">>
        parsed == IF word THEN parseMarkdownToWordParagraphs(required, content)
                  ELSE [error |-> "none", paragraphs |-> <<>>]
        existing == Resolved(explorer.root, filePath)
        stored == IF parsed.error # "none"
                  THEN (IF existing.error = "none" THEN existing.entry.content ELSE <<>>)
                  ELSE IF word THEN WordFile(content) ELSE Written(content)
        now == IF parsed.error # "none" /\ existing.error = "none"
               THEN existing.entry.lastModified ELSE clock
        r == IF denied THEN [error |-> "NotAllowedError", directory |-> explorer.root]
             ELSE FileWritten(explorer.root, filePath, stored, now)
    IN  Operated("saveFile", ok, TRUE, r.directory,
                 [NoOperation EXCEPT
                     !.path = filePath, !.content = content,
                     !.raised = r.error,
                     !.error = IF r.error # "none" THEN r.error ELSE parsed.error,
                     !.paragraphs = IF r.error # "none" THEN <<>> ELSE parsed.paragraphs])

\* createFile(folderPath, fileName, content) on the directory
createFileAt(ok, denied, folderPath, fileName, content) ==
    LET filePath == folderPath \o <<fileName>>
        text == IF content = <<>> THEN Template(fileName) ELSE content
        r == IF denied THEN [error |-> "NotAllowedError", directory |-> explorer.root]
             ELSE FileWritten(explorer.root, filePath, Written(text), clock)
    IN  Operated("createFile", ok, TRUE, r.directory,
                 [NoOperation EXCEPT
                     !.path = filePath, !.content = content,
                     !.raised = r.error, !.error = r.error,
                     !.document = IF r.error # "none" THEN NoDocument
                                  ELSE [id |-> filePath, filePath |-> filePath,
                                        content |-> text]])

\* createFolder(parentPath, folderName) on the directory
createFolderAt(ok, denied, parentPath, folderName) ==
    LET r == IF denied THEN [error |-> "NotAllowedError", directory |-> explorer.root]
             ELSE FolderCreated(explorer.root, parentPath \o <<folderName>>)
    IN  Operated("createFolder", ok, TRUE, r.directory,
                 [NoOperation EXCEPT !.path = parentPath \o <<folderName>>,
                                     !.raised = r.error, !.error = r.error])

\* deleteItem(itemPath) on the directory
deleteItemAt(ok, denied, itemPath) ==
    LET r == IF denied THEN [error |-> "NotAllowedError", directory |-> explorer.root]
             ELSE EntryRemoved(explorer.root, itemPath)
        found == Resolved(explorer.root, itemPath)
    IN  Operated("deleteItem", ok, TRUE, r.directory,
                 [NoOperation EXCEPT
                     !.path = itemPath,
                     !.raised = r.error, !.error = r.error,
                     !.target = IF found.error # "none" THEN "none"
                                ELSE IF found.entry.kind = "file" THEN "file"
                                ELSE IF found.entry.children = {} THEN "empty folder"
                                ELSE "folder"])

\* the names, paths and contents the operations are called with
FileNames == [reports |-> <<"r", "e", "p", "o", "r", "t", "s">>,
              q1Md |-> <<"q", "1", ".", "m", "d">>,
              rDocx |-> <<"r", ".", "d", "o", "c", "x">>]
\* createFile's folderPath and fileName
FileTargets == {<<<<FileNames.reports>>, FileNames.q1Md>>, <<<<>>, FileNames.rDocx>>}
FilePaths == {target[1] \o <<target[2]>> : target \in FileTargets}
Contents == {<<"#", " ", "Q", "1">>, <<"feff", "#">>}

\* the workspace has been set, and is empty
InitFiles ==
    /\ InitWorld(FALSE)
    /\ service = [directoryHandle |-> WorkspaceHandle, workspaceConfig |-> TRUE]
    /\ indexedDB = WorkspaceHandle
    /\ folders = NoFolders
    /\ session = SessionOf(WorkspaceHandle)
    /\ toolbar = NoToolbar
    /\ explorer = NoExplorer

NextFiles ==
    \/ \E denied \in BOOLEAN, target \in FileTargets, content \in Contents \cup {<<>>} :
           createFileAt(TRUE, denied, target[1], target[2], content)
    \/ \E denied, required \in BOOLEAN, path \in FilePaths, content \in Contents :
           saveFileAt(TRUE, denied, required, path, content)
    \/ \E denied, changed \in BOOLEAN, path \in FilePaths \cup {<<FileNames.reports>>} :
           readFile(TRUE, denied, changed, path)
    \/ \E denied \in BOOLEAN, path \in FilePaths \cup {<<FileNames.reports>>} :
           deleteItemAt(TRUE, denied, path)
    \/ \E denied \in BOOLEAN : createFolderAt(TRUE, denied, <<>>, FileNames.reports)
    \/ \E entries \in Enumerations(explorer.root) : getFolderStructure(TRUE, entries)
    \/ reload

SpecFiles == InitFiles /\ [][NextFiles]_vars

\* one saveFile of r.docx into the empty workspace, with every content of
\* at most MaxLines lines out of: blank lines, lines with one to four
\* markers, a marker without its space, an indented marker, plain text
MaxLines == 2

Lines ==
    {<<>>, <<" ">>, <<"#", " ", "a">>, <<"#", "#", " ", "a">>,
     <<"#", "#", "#", " ", "a">>, <<"#", "#", "#", "#", " ", "a">>,
     <<"#", "a">>, <<" ", "#", " ", "a">>, <<"a", " ", "#">>}

RECURSIVE Texts(_)
Texts(n) ==
    IF n = 1 THEN Lines
    ELSE LET shorter == Texts(n - 1)
         IN  shorter \cup {text \o <<"\n">> \o line : text \in shorter, line \in Lines}

NextEncode ==
    /\ explorer.root = {}
    /\ \E required \in BOOLEAN, content \in Texts(MaxLines) :
           saveFileAt(TRUE, FALSE, required, <<FileNames.rDocx>>, content)

SpecEncode == InitFiles /\ [][NextEncode]_vars

(***************************************************************************)
(* The two traversals side by side, on directories some of whose files     *)
(* cannot be read (getFile throws: the file was deleted or the access      *)
(* revoked while the directory is enumerated).                             *)
(***************************************************************************)
\* the keys scanDirectory and scanDirectoryForChanges set in the flat
\* snapshot, on the entries in the order the enumeration yields them: a file
\* whose getFile throws is skipped by the inner catch, a folder whose
\* enumeration throws adds nothing
RECURSIVE scanDirectoryForChanges(_, _)
scanDirectoryForChanges(entries, currentPath) ==
    IF entries = <<>> THEN {}
    ELSE LET entry == Head(entries)
             fullPath == Append(currentPath, entry.name)
             rest == scanDirectoryForChanges(Tail(entries), currentPath)
         IN  IF shouldExclude(entry.name) THEN rest
             ELSE IF entry.kind = "file"
             THEN (IF entry.readable THEN {fullPath} ELSE {}) \cup rest
             ELSE (IF entry.readable
                   THEN scanDirectoryForChanges(entry.children, fullPath)
                   ELSE {}) \cup rest

\* createSnapshot on the explored directory
createSnapshot(entries) ==
    /\ explorer' = [explorer EXCEPT !.scanned = TRUE,
                                    !.keys = scanDirectoryForChanges(entries, <<>>)]
    /\ UNCHANGED <<worldVars, service, indexedDB, folders, session, toolbar>>

Unreadable(entry) == [entry EXCEPT !.readable = FALSE]

\* directories with files that cannot be read
BuildDirectories ==
    LET N == EntryNames
        readOrNot(name) == {{}, {FileEntry(name)}, {Unreadable(FileEntry(name))}}
        inDocs == {f \cup g : f \in readOrNot(N.aMd),
                              g \in {{}, {FolderEntry(N.ab, {})}}}
        docs == {{}} \cup {{FolderEntry(N.docs, c)} : c \in inDocs}
    IN  {a \cup b \cup c \cup d : a \in readOrNot(N.aMd),
                                  b \in {{}, {FileEntry(N.bJs)}},
                                  c \in readOrNot(NameBuildLog),
                                  d \in docs}

InitBuild ==
    /\ InitWorld(FALSE)
    /\ service = [directoryHandle |-> WorkspaceHandle, workspaceConfig |-> TRUE]
    /\ indexedDB = WorkspaceHandle
    /\ folders = NoFolders
    /\ session = SessionOf(WorkspaceHandle)
    /\ toolbar = NoToolbar
    /\ \E d \in BuildDirectories : explorer = [NoExplorer EXCEPT !.root = d]

NextBuild ==
    \/ \E entries \in Enumerations(explorer.root) : getFolderStructure(TRUE, entries)
    \/ \E entries \in Enumerations(explorer.root) : createSnapshot(entries)
    \/ \E entry \in explorer.root : removeEntry(entry)

SpecBuild == InitBuild /\ [][NextBuild]_vars

(***************************************************************************)
(* One diff on every pair of snapshots: the watcher runs on the workspace, *)
(* its stored snapshot and the files it scans are any two flat snapshots,  *)
(* and listeners come and go while the timer starts cycles.                *)
(***************************************************************************)
Stamps == {1, 2}
Entries == {NoFile} \cup {FileMeta(s, t) : s \in Sizes, t \in Stamps}
\* the snapshots a scan can build: no entry for an excluded name
Snapshots == {snapshot \in [Paths -> Entries] : \A p \in Keys(snapshot) : Scanned(p)}

\* those of files that are absent, as first written, or written again
RewrittenSnapshots ==
    {snapshot \in Snapshots :
        \A p \in Paths : snapshot[p] \in {NoFile, FileMeta(1, 1), FileMeta(2, 2)}}

InitOn(snapshots) ==
    /\ isWatching = TRUE
    /\ watchInterval = 1
    /\ lastSnapshot \in snapshots
    /\ directoryHandle = WorkspaceHandle
    /\ listeners = <<>>
    /\ timers = {1}
    /\ \E files \in snapshots :
           fs = [h \in Handles |-> IF h = WorkspaceHandle THEN files ELSE EmptySnapshot]
    /\ clock = MaxClock
    /\ starts = [s \in StartSlots |-> IdleStart]
    /\ scans = [i \in ScanSlots |-> IdleScan]
    /\ requested = [h |-> WorkspaceHandle, ignored |-> FALSE]
    /\ pendingCreate = NoPath
    /\ tracking = FALSE
    /\ scanFailed = FALSE
    /\ unreported = NoReports
    /\ dirty = FALSE
    /\ service = [directoryHandle |-> WorkspaceHandle, workspaceConfig |-> TRUE]
    /\ indexedDB = WorkspaceHandle
    /\ folders = NoFolders
    /\ explorer = NoExplorer
    /\ session = SessionOf(WorkspaceHandle)
    /\ toolbar = NoToolbar

InitCycle == InitOn(RewrittenSnapshots)

NextCycle ==
    \/ Timer
    \/ \E i \in ScanSlots : ScanStep(i)
    \/ \E i \in ScanSlots : Compare(i)
    \/ \E i \in ScanSlots : Update(i)
    \/ \E l \in Listeners : addListener(l)
    \/ \E l \in Listeners : removeListener(l)

SpecCycle == InitCycle /\ [][NextCycle]_vars

\* the same, while the watcher is stopped and started again; the stored
\* snapshot is empty, so the first cycle publishes an event for every file
InitListen ==
    /\ InitCycle
    /\ lastSnapshot = EmptySnapshot
    /\ fs[WorkspaceHandle] = [EmptySnapshot EXCEPT ![PathA] = FileMeta(1, 1),
                                                   ![PathDocsB] = FileMeta(1, 1)]

NextListen ==
    \/ NextCycle
    \/ stopWatching
    \/ StartWatching(WorkspaceHandle)
    \/ \E s \in StartSlots : StartResume(s)

SpecListen == InitListen /\ [][NextListen]_vars

\* the diffs alone, on all snapshots and with no listener registered
InitDiff == InitOn(Snapshots)

NextDiff ==
    \/ Timer
    \/ \E i \in ScanSlots : ScanStep(i)
    \/ \E i \in ScanSlots : Compare(i)
    \/ \E i \in ScanSlots : Update(i)

SpecDiff == InitDiff /\ [][NextDiff]_vars

\* cycles that the storage may fail: the stored snapshot is what a scan of
\* the files gives, no file is ever written, and a tick finds no cycle in
\* flight
InitFault ==
    /\ InitOn(RewrittenSnapshots)
    /\ lastSnapshot = fs[WorkspaceHandle]

NextFault ==
    \/ ActiveScans = {} /\ Timer
    \/ \E i \in ScanSlots : ScanStep(i)
    \/ \E i \in ScanSlots, kind \in Failures : ScanFault(i, kind)
    \/ \E i \in ScanSlots : Compare(i)
    \/ \E i \in ScanSlots : Update(i)
    \/ \E l \in Listeners : addListener(l)

SpecFault == InitFault /\ [][NextFault]_vars

\* the user creates folders under the running watcher and writes no file;
\* the event loop runs every timer callback and resumes every cycle
NextFolder ==
    \/ Timer
    \/ \E i \in ScanSlots : ScanResume(i)
    \/ \E name \in {NameDocs, FileNames.reports} :
           WorkspaceOperation("createFolder", TRUE, <<name>>, 0)
    \/ \E l \in Listeners : addListener(l)

SpecFolder ==
    /\ InitFault
    /\ [][NextFolder]_vars
    /\ WF_vars(Timer)
    /\ \A i \in ScanSlots : WF_vars(ScanResume(i))

(***************************************************************************)
(* The selection toolbar and the AI tasks.  A task id is the task's        *)
(* position in AITaskService.tasks (nextTaskId counts from 1); 0 is the    *)
(* null of currentTaskId.  The toolbar shows its action buttons while      *)
(* isLoading is false, so one action is in flight at a time.               *)
(***************************************************************************)
MaxTasks == 4

Outcomes == {"success", "failure", "throw"}

\* createTask: the new task is 'pending'
createTask(tasks) == Append(tasks, "pending")

\* updateTaskStatus returns at once when there is no such task
updateTaskStatus(tasks, taskId, status) ==
    IF taskId \in DOMAIN tasks THEN [tasks EXCEPT ![taskId] = status] ELSE tasks

getRunningTasks(tasks) == {t \in DOMAIN tasks : tasks[t] \in {"pending", "running"}}

\* the part of an action up to its "await aiService.processText": the task is
\* created and set 'running', setCurrentTaskId(taskId); the handler keeps the
\* currentTaskId of the render it was made in
Started(handler, promptTemplate) ==
    LET taskId == Len(toolbar.tasks) + 1
    IN  [toolbar EXCEPT
            !.tasks = updateTaskStatus(createTask(toolbar.tasks), taskId, "running"),
            !.currentTaskId = taskId,
            !.isLoading = TRUE,
            !.call = [handler |-> handler, taskId |-> taskId,
                      promptTemplate |-> promptTemplate,
                      currentTaskId |-> toolbar.currentTaskId]]

\* promptTemplate: whether PromptManager.getPromptById finds templateId
handlePresetAction(promptTemplate) ==
    /\ ~toolbar.isLoading
    /\ Len(toolbar.tasks) < MaxTasks
    /\ toolbar' = Started("handlePresetAction", promptTemplate)
    /\ UNCHANGED <<worldVars, service, indexedDB, folders, session, explorer>>

handleSubAction(promptTemplate) ==
    /\ ~toolbar.isLoading
    /\ Len(toolbar.tasks) < MaxTasks
    /\ toolbar' = Started("handleSubAction", promptTemplate)
    /\ UNCHANGED <<worldVars, service, indexedDB, folders, session, explorer>>

\* handlePresetAction after processText: with a Prompt template it shows the
\* response and returns; without one it completes or fails the task; its catch
\* updates the task of the currentTaskId it keeps; finally, currentTaskId is null
PresetActionResume(outcome) ==
    /\ toolbar.call.handler = "handlePresetAction"
    /\ LET call == toolbar.call
           tasks == toolbar.tasks
       IN  toolbar' = [toolbar EXCEPT
               !.tasks = IF outcome = "throw"
                         THEN IF call.currentTaskId # 0
                              THEN updateTaskStatus(tasks, call.currentTaskId, "error")
                              ELSE tasks
                         ELSE IF call.promptTemplate THEN tasks
                         ELSE IF outcome = "success"
                         THEN updateTaskStatus(tasks, call.taskId, "completed")
                         ELSE updateTaskStatus(tasks, call.taskId, "error"),
               !.currentTaskId = 0,
               !.isLoading = FALSE,
               !.call = NoCall,
               !.answered = @ \cup {call.taskId}]
    /\ UNCHANGED <<worldVars, service, indexedDB, folders, session, explorer>>

\* handleSubAction after processText: it shows the response or the error
SubActionResume(outcome) ==
    /\ toolbar.call.handler = "handleSubAction"
    /\ toolbar' = [toolbar EXCEPT
           !.isLoading = FALSE,
           !.call = NoCall,
           !.answered = @ \cup {toolbar.call.taskId}]
    /\ UNCHANGED <<worldVars, service, indexedDB, folders, session, explorer>>

NextTask ==
    \/ \E promptTemplate \in BOOLEAN : handlePresetAction(promptTemplate)
    \/ \E promptTemplate \in BOOLEAN : handleSubAction(promptTemplate)
    \/ \E outcome \in Outcomes : PresetActionResume(outcome)
    \/ \E outcome \in Outcomes : SubActionResume(outcome)

SpecTask == Init /\ [][NextTask]_vars

(***************************************************************************)
(* Properties of the watch loop, under Spec.                               *)
(***************************************************************************)
\* the state stopWatching leaves the service in
Stopped ==
    /\ ~isWatching
    /\ watchInterval = 0
    /\ lastSnapshot = EmptySnapshot
    /\ directoryHandle = NoHandle

\* C1: at most one checkForChanges cycle is in flight at any time, whether
\* a timer tick or forceCheck started it.
C1_OneScanInFlight == Cardinality(ActiveScans) <= 1

\* C2: a cycle that stopWatching overtook (the cycle is still in flight and
\* nothing has started the watcher again) publishes no event when it gets to
\* compareSnapshots and does not store its snapshot: the stored snapshot
\* stays empty and the watcher stays idle.
C2_StoppedScanDiscarded ==
    [][\A i \in ScanSlots :
          (scans[i].active /\ Stopped) =>
              /\ Compare(i) => scans'[i].events = NoEvents
              /\ Update(i) => Stopped']_vars

\* C3: once a startWatching(B) call made while the watcher watched A has
\* returned, and no startWatching call is suspended any more, the watcher's
\* capability is B.
C3_WatchesRequested ==
    (isWatching /\ ActiveStarts = {} /\ requested.h # NoHandle)
        => directoryHandle = requested.h

\* C4: startWatching with the capability that is being watched changes
\* nothing: not the capability, the stored snapshot, the watching flag or
\* the timer, and it creates no timer and starts no scan.
C4_SameCapabilityNoOp ==
    [][\A h \in Handles :
          (isWatching /\ directoryHandle = h /\ StartWatching(h)) =>
              UNCHANGED <<isWatching, watchInterval, lastSnapshot, directoryHandle,
                          listeners, timers, starts, scans>>]_vars

\* C4 happens: the watcher runs on the capability of a startWatching call
\* that returned at once.
C4_Witness ==
    /\ isWatching
    /\ watchInterval # 0
    /\ requested.ignored
    /\ requested.h = directoryHandle

\* C5: stopWatching cancels the timer it holds, empties the stored snapshot,
\* releases the capability and sets the state to idle; called in that state
\* again it changes nothing.
C5_StopIdempotent ==
    [][stopWatching =>
          /\ Stopped'
          /\ watchInterval # 0 => watchInterval \notin timers'
          /\ Stopped => UNCHANGED vars]_vars

\* C5 happens: stopWatching has acted on a running loop (a cycle of it is
\* still in flight).
C5_Witness == Stopped /\ ActiveScans # {}

C11_UnchangedNoEvents ==
    [][\A i \in ScanSlots :
          (Compare(i) /\ scans[i].quiet /\ ~scans[i].touched)
              => scans'[i].events = NoEvents]_vars

(***************************************************************************)
(* Properties of one cycle, under SpecCycle.                               *)
(***************************************************************************)
\* C6: whatever listeners are registered, and whichever of them throw,
\* compareSnapshots publishes every event of the diff to every registered
\* listener, the cycle goes on to the step that replaces the stored
\* snapshot, and the watcher still watches with its timers set.
C6_ThrowingListenerIsolated ==
    [][\A i \in ScanSlots :
          Compare(i) =>
              /\ scans'[i].active /\ scans'[i].pc = "update"
              /\ scans'[i].events = DiffEvents(lastSnapshot, scans[i].snap, clock)
              /\ \A k \in DOMAIN listeners :
                     scans'[i].got[listeners[k]] = scans'[i].events
              /\ isWatching' /\ timers' = timers /\ timers' # {}]_vars

\* C6 happens: a cycle has published two events or more to a throwing
\* listener registered before another one, and both have received them all.
C6_Witness ==
    \E i \in ScanSlots :
        /\ scans[i].pc = "update"
        /\ Len(scans[i].events) >= 2
        /\ listeners = <<"l1", "l2">>
        /\ "l1" \in Throwing
        /\ scans[i].got["l1"] = scans[i].events
        /\ scans[i].got["l2"] = scans[i].events

TypesFor(path, events) ==
    LET mine == SelectSeq(events, LAMBDA e : e.path = path)
    IN  [k \in DOMAIN mine |-> mine[k].type]

\* what the diff of previous against current owes one path
Owed(path, previous, current) ==
    IF current[path].present /\ ~previous[path].present THEN <<"created">>
    ELSE IF previous[path].present /\ ~current[path].present THEN <<"deleted">>
    ELSE IF /\ current[path].present /\ previous[path].present
            /\ \/ current[path].size # previous[path].size
               \/ current[path].lastModified # previous[path].lastModified
         THEN <<"modified">>
    ELSE <<>>

\* C9: the events of one diff are, for every path, exactly one "created"
\* if the path is in the fresh snapshot only, one "deleted" if it is in
\* the stored snapshot only, one "modified" if it is in both and its size
\* or lastModified differs, and none otherwise.
C9_ExactDiff ==
    [][\A i \in ScanSlots :
          Compare(i) =>
              \A path \in Paths :
                  TypesFor(path, scans'[i].events)
                      = Owed(path, lastSnapshot, scans[i].snap)]_vars

\* C9 happens: one diff has produced a "modified" event for one path and a
\* "deleted" event for the other.
C9_Witness ==
    \E i \in ScanSlots :
        /\ scans[i].pc = "update"
        /\ \E j, k \in DOMAIN scans[i].events :
               /\ scans[i].events[j].type = "modified"
               /\ scans[i].events[k].type = "deleted"

\* C10: a cycle whose fresh snapshot equals the stored snapshot produces no
\* event and publishes nothing.
C10_DiffSelfEmpty ==
    [][\A i \in ScanSlots :
          (Compare(i) /\ scans[i].snap = lastSnapshot) =>
              /\ scans'[i].events = NoEvents
              /\ scans'[i].got = NothingReceived]_vars

\* C10 happens: a cycle has compared a snapshot of two files with the equal
\* stored snapshot.
C10_Witness ==
    \E i \in ScanSlots :
        /\ scans[i].pc = "update"
        /\ scans[i].snap = lastSnapshot
        /\ Cardinality(Keys(lastSnapshot)) = 2
        /\ scans[i].events = NoEvents

\* the file at path p of the stored snapshot is at path q of the fresh one,
\* and at p no more
Renamed(p, q, previous, current) ==
    /\ p # q
    /\ previous[p].present /\ ~current[p].present
    /\ ~previous[q].present /\ current[q] = previous[p]

\* C12: no diff produces an event of type "renamed"; a file that has moved
\* from path p to path q between the stored and the fresh snapshot gets
\* exactly one "deleted" event for p and one "created" event for q.
C12_RenameIsDeletedCreated ==
    [][\A i \in ScanSlots :
          Compare(i) =>
              /\ \A k \in DOMAIN scans'[i].events :
                     scans'[i].events[k].type \in {"created", "modified", "deleted"}
              /\ \A p, q \in Paths :
                     Renamed(p, q, lastSnapshot, scans[i].snap) =>
                         /\ TypesFor(p, scans'[i].events) = <<"deleted">>
                         /\ TypesFor(q, scans'[i].events) = <<"created">>]_vars

\* C12 happens: a cycle has compared the snapshot of a moved file with the
\* stored one and published its two events.
C12_Witness ==
    \E i \in ScanSlots :
        /\ scans[i].pc = "update"
        /\ Renamed(PathA, PathDocsB, lastSnapshot, scans[i].snap)
        /\ Len(scans[i].events) = 2

(***************************************************************************)
(* Properties of the Handle Store, under SpecStore.                        *)
(***************************************************************************)
\* C13: a Workspace Operation called when no capability is in memory and
\* none is in the store throws the no-workspace error and leaves the files,
\* the folders and the store as they are.
C13_NoWorkspaceFails ==
    [][\A op \in Operations, ok \in BOOLEAN, path \in Paths, size \in WriteSizes :
          (/\ service.directoryHandle = NoHandle
           /\ indexedDB = NoHandle
           /\ WorkspaceOperation(op, ok, path, size))
              => /\ session'.threw
                 /\ fs' = fs
                 /\ folders' = folders
                 /\ indexedDB' = indexedDB]_vars

\* C13 happens: an operation has thrown with nothing in memory and nothing
\* in the store.
C13_Witness ==
    /\ session.threw
    /\ session.returned = NoHandle
    /\ service.directoryHandle = NoHandle
    /\ indexedDB = NoHandle

\* C14: after setWorkspace(c) has returned, every getStoredDirectoryHandle
\* call returns c, in the same session and after a reload, and never a
\* capability that a later setWorkspace has replaced.  Read generously: a
\* call that returns nothing, as the failure semantics allow, is not counted
\* against the claim.
C14_ReturnsSet ==
    [][\A ok \in BOOLEAN :
          (session.set # NoHandle /\ getStoredDirectoryHandle(ok))
              => session'.returned \in {session.set, NoHandle}]_vars

\* what does hold: the call returns the capability of the latest
\* setWorkspace in the same session, and after a reload when the put of that
\* setWorkspace succeeded and the store answers the load
ReturnsSetWhenStored ==
    [][\A ok \in BOOLEAN :
          (/\ session.set # NoHandle
           /\ getStoredDirectoryHandle(ok)
           /\ \/ ~session.reloaded
              \/ /\ session.persisted
                 /\ ok \/ service.directoryHandle # NoHandle)
              => session'.returned = session.set]_vars

\* C15: a getStoredDirectoryHandle call whose load fails returns nothing,
\* and after a setWorkspace whose put failed and a reload,
\* getStoredDirectoryHandle returns nothing.
C15_FailureMeansNone ==
    [][\A ok \in BOOLEAN :
          getStoredDirectoryHandle(ok) =>
              /\ (service.directoryHandle = NoHandle /\ ~ok)
                     => session'.returned = NoHandle
              /\ (session.set # NoHandle /\ ~session.persisted /\ session.reloaded)
                     => session'.returned = NoHandle]_vars

\* C16: getStoredDirectoryHandle reads the store at most once in a session.
C16_OneReadPerSession == session.reads <= 1

(***************************************************************************)
(* Properties of the Tree Builder, under SpecTree.                         *)
(***************************************************************************)
\* the nodes of a built tree, at every depth
RECURSIVE AllNodes(_)
AllNodes(nodes) ==
    UNION {{nodes[i]} \cup (IF nodes[i].type = "folder"
                            THEN AllNodes(nodes[i].children) ELSE {}) :
              i \in 1..Len(nodes)}

\* the entries of a directory at every depth, each with its path
RECURSIVE AllEntries(_, _)
AllEntries(directory, parentPath) ==
    UNION {{[path |-> Append(parentPath, e.name), kind |-> e.kind]}
               \cup AllEntries(e.children, Append(parentPath, e.name)) : e \in directory}

\* a name matches an exclusion pattern: it is the pattern or begins with it
MatchesPattern(name) ==
    \E pattern \in workspaceExcludePatterns : startsWith(name, pattern)

\* a name holds an exclusion pattern anywhere
HoldsPattern(name) ==
    \E pattern \in workspaceExcludePatterns : includes(name, pattern)

\* the suffix of a name from its last dot
SuffixFromLastDot(name) ==
    IF lastIndexOf(name, ".") >= 0
    THEN SubSeq(name, lastIndexOf(name, ".") + 1, Len(name))
    ELSE <<>>

\* C17: no node of the tree getFolderStructure returned, at any depth, has a
\* name that matches an exclusion pattern or lies under a folder whose name
\* does.
C17_NoExcludedNode ==
    explorer.built =>
        \A node \in AllNodes(explorer.last) :
            \A k \in 1..Len(node.path) : ~MatchesPattern(node.path[k])

\* C18: a file is a file node of the built tree exactly when neither its
\* name nor the name of a folder above it is excluded and the suffix from
\* its last dot is a watched extension, and every folder that is not
\* excluded and not under an excluded folder is a folder node.  A name
\* counts as excluded here when it holds a pattern anywhere, as the code
\* tests it.
C18_FilesAndFoldersIncluded ==
    explorer.built =>
        \A e \in AllEntries(explorer.root, <<>>) :
            LET clear == \A k \in 1..Len(e.path) : ~HoldsPattern(e.path[k])
                shown(type) == \E node \in AllNodes(explorer.last) :
                                   node.path = e.path /\ node.type = type
            IN  IF e.kind = "file"
                THEN shown("file") <=>
                         (clear /\ SuffixFromLastDot(e.path[Len(e.path)]) \in watchedExtensions)
                ELSE clear => shown("folder")

\* a name with its case and its spelling folded, as code units
Folded(name) ==
    [i \in 1..Len(Composed(name)) |-> charCodeAt[toLowerCase(Composed(name)[i])]]

\* folders before files, and within each kind ascending folded names
RECURSIVE InOrder(_)
InOrder(nodes) ==
    /\ \A i, j \in 1..Len(nodes) :
           i < j => /\ ~(nodes[i].type = "file" /\ nodes[j].type = "folder")
                    /\ nodes[i].type = nodes[j].type
                           => CompareKeys(Folded(nodes[i].name), Folded(nodes[j].name)) <= 0
    /\ \A i \in 1..Len(nodes) :
           nodes[i].type = "folder" => InOrder(nodes[i].children)

\* C19: in the root list and in every children list of the built tree the
\* folders come before the files, and the folders and the files are each in
\* ascending case-insensitive name order.
C19_FoldersFirstByName == explorer.built => InOrder(explorer.last)

\* C19 happens: a tree was built in which the folder docs comes first and
\* a.md comes before B.txt, and in docs the folder ab before the file a.md.
C19_Witness ==
    /\ explorer.built
    /\ Len(explorer.last) = 3
    /\ explorer.last[1].name = EntryNames.docs
    /\ explorer.last[2].name = EntryNames.aMd
    /\ explorer.last[3].name = EntryNames.upperBTxt
    /\ Len(explorer.last[1].children) = 2
    /\ explorer.last[1].children[1].name = EntryNames.ab

\* C20: two getFolderStructure calls with no change of the directory between
\* them return the same nodes in the same order, whatever order the
\* enumeration yields the entries in.
C20_SameTreeAgain == explorer.repeated => explorer.first = explorer.last

(***************************************************************************)
(* Properties of the two traversals, under SpecBuild and SpecTree.         *)
(***************************************************************************)
\* the entries of a directory at every depth, each with its path and with
\* whether a folder above it is unreadable
RECURSIVE Placed(_, _)
Placed(directory, parentPath) ==
    UNION {{[path |-> Append(parentPath, e.name), entry |-> e]}
               \cup (IF e.readable THEN Placed(e.children, Append(parentPath, e.name))
                     ELSE {}) : e \in directory}

\* C21: when the metadata read of one entry fails during a tree build only
\* that entry is omitted: every readable file with a watched extension and
\* every folder, under no excluded name, is a node of the built tree.
C21_OnlyBadEntryOmitted ==
    explorer.built =>
        \A p \in Placed(explorer.root, <<>>) :
            (/\ \A k \in 1..Len(p.path) : ~HoldsPattern(p.path[k])
             /\ p.entry.readable
             /\ p.entry.kind = "file" => getFileExtension(p.entry.name) \in watchedExtensions)
                => \E node \in AllNodes(explorer.last) : node.path = p.path

\* what every node of a list carries, and so on in the children of its
\* folders
RECURSIVE WellFormed(_, _)
WellFormed(nodes, parentPath) ==
    \A i \in 1..Len(nodes) :
        LET node == nodes[i]
        IN  /\ node.id = node.path
            /\ Joined(node.path) =
                   IF parentPath = <<>> THEN node.name
                   ELSE Joined(parentPath) \o <<"/">> \o node.name
            /\ IF node.type = "folder"
               THEN /\ DOMAIN node = {"id", "name", "path", "type", "children"}
                    /\ WellFormed(node.children, node.path)
               ELSE /\ node.type = "file"
                    /\ DOMAIN node = {"id", "name", "path", "type", "extension",
                                      "size", "lastModified"}

\* C22: in every built tree a node's id is its path, its path is its
\* parent's path joined with its name by '/', no two nodes have one path, a
\* folder node carries children and no extension, size or lastModified, and
\* a file node carries extension, size and lastModified and no children.
C22_NodesWellFormed ==
    explorer.built =>
        /\ WellFormed(explorer.last, <<>>)
        /\ \A m, n \in AllNodes(explorer.last) :
               Joined(m.path) = Joined(n.path) => m = n

\* C22 happens: a tree was built with the folder docs and, under it, the
\* file a.md.
C22_Witness ==
    /\ explorer.built
    /\ \E node \in AllNodes(explorer.last) :
           /\ node.type = "file"
           /\ node.path = <<EntryNames.docs, EntryNames.aMd>>
    /\ \E node \in AllNodes(explorer.last) :
           node.type = "folder" /\ node.path = <<EntryNames.docs>>

\* C30: a path is a key of the watcher's flat snapshot exactly when the
\* built tree of the same directory has a file node with that path; folders
\* are never keys.
C30_SameTraversal ==
    (explorer.built /\ explorer.scanned) =>
        explorer.keys = {node.path : node \in {n \in AllNodes(explorer.last) :
                                                  n.type = "file"}}

(***************************************************************************)
(* Properties of the Workspace Operations on the directory, under          *)
(* SpecFiles.                                                              *)
(***************************************************************************)
\* some getFolderStructure call of the step
TreeBuilt == \E entries \in Enumerations(explorer.root) : getFolderStructure(TRUE, entries)

\* C23: after createFile('reports', 'q1.md', content) into an empty
\* workspace, getFolderStructure returns a tree whose only root node is the
\* folder reports with exactly one child, the file node reports/q1.md.
C23_CreatedFileShown ==
    [][(/\ explorer.done.op = "createFile"
        /\ explorer.done.error = "none"
        /\ explorer.done.wasEmpty
        /\ explorer.done.path = <<FileNames.reports, FileNames.q1Md>>
        /\ TreeBuilt)
           => /\ Len(explorer'.last) = 1
              /\ explorer'.last[1].type = "folder"
              /\ explorer'.last[1].path = <<FileNames.reports>>
              /\ Len(explorer'.last[1].children) = 1
              /\ explorer'.last[1].children[1].type = "file"
              /\ explorer'.last[1].children[1].path =
                     <<FileNames.reports, FileNames.q1Md>>]_vars

\* C24: readFile of the path a saveFile has just written, the path having
\* no word-processor extension, returns a Document whose content is the
\* saved content and whose id and filePath are the path.
C24_SaveThenRead ==
    [][\A path \in FilePaths :
          (/\ explorer.done.op = "saveFile"
           /\ explorer.done.error = "none"
           /\ explorer.done.path = path
           /\ getFileExtension(Joined(path)) \notin WordExtensions
           /\ readFile(TRUE, FALSE, FALSE, path))
              => /\ explorer'.done.error = "none"
                 /\ explorer'.done.document =
                        [id |-> path, filePath |-> path,
                         content |-> explorer.done.content]]_vars

\* C25: after deleteItem(p) has succeeded, on a folder as on a file,
\* getFolderStructure returns a tree with no node at p or under p.
C25_DeletedGone ==
    [][(/\ explorer.done.op = "deleteItem"
        /\ explorer.done.error = "none"
        /\ TreeBuilt)
           => \A node \in AllNodes(explorer'.last) :
                  ~startsWith(node.path, explorer.done.path)]_vars

\* C25 happens: the folder reports, which held a file, was deleted, and the
\* tree built afterwards holds a node, none of them at or under reports.
C25_Witness ==
    /\ explorer.done.op = "deleteItem"
    /\ explorer.done.error = "none"
    /\ explorer.done.target = "folder"
    /\ explorer.done.path = <<FileNames.reports>>
    /\ explorer.built
    /\ explorer.last # <<>>

\* C26: readFile(path) and deleteItem(path) on a path with a missing folder
\* or a missing leaf fail with the error of the storage and leave the
\* directory as it was.
C26_ReadOnlyResolution ==
    [][\A path \in FilePaths \cup {<<FileNames.reports>>}, changed \in BOOLEAN :
          (/\ Resolved(explorer.root, path).error = "NotFoundError"
           /\ readFile(TRUE, FALSE, changed, path) \/ deleteItemAt(TRUE, FALSE, path))
              => /\ explorer'.done.error = "NotFoundError"
                 /\ explorer'.root = explorer.root]_vars

\* C26 happens: readFile('reports/q1.md') has failed in a workspace that
\* holds a file and no folder reports.
C26_Witness ==
    /\ explorer.done.op = "readFile"
    /\ explorer.done.path = <<FileNames.reports, FileNames.q1Md>>
    /\ explorer.done.error = "NotFoundError"
    /\ Named(explorer.root, FileNames.reports) = {}
    /\ explorer.root # {}

\* C27: an error the storage raises during readFile, saveFile, createFile,
\* createFolder or deleteItem is the error the caller gets.
C27_ErrorUntouched ==
    (/\ explorer.done.op \in {"readFile", "saveFile", "createFile", "createFolder",
                              "deleteItem"}
     /\ explorer.done.raised # "none")
        => explorer.done.error = explorer.done.raised

(***************************************************************************)
(* Properties of cycles the storage fails, under SpecFault.                *)
(***************************************************************************)
\* C28: once a traversal of a cycle has failed, the watcher is still
\* watching, its timer still exists, and a tick of it starts a cycle.
C28_FailureKeepsLoop ==
    [][scanFailed'
          => /\ isWatching'
             /\ watchInterval' # 0
             /\ watchInterval' \in timers'
             /\ directoryHandle' = WorkspaceHandle
             /\ (scanFailed /\ Timer) => ActiveScans' # {}]_vars

\* C28 happens: after a traversal has failed, a later tick has started a
\* cycle, which stands before its first entry.
C28_Witness ==
    /\ scanFailed
    /\ isWatching
    /\ \E i \in ActiveScans :
           scans[i].pc = "scan" /\ scans[i].idx = 0 /\ scans[i].snap = EmptySnapshot

\* C29: no file is written while the watcher runs, so no cycle publishes an
\* event, neither the cycle whose traversal failed nor the one after it.
C29_FailureOnlyHidesEvents ==
    [][\A i \in ScanSlots :
          Compare(i) => DiffEvents(lastSnapshot, scans[i].snap, clock) = NoEvents]_vars

(***************************************************************************)
(* Properties of the timers, under Spec.                                   *)
(***************************************************************************)
\* C35: at most one interval timer exists, and one exists only while the
\* watcher is watching.
C35_OneTimerWhileWatching ==
    /\ Cardinality(timers) <= 1
    /\ timers # {} => isWatching

(***************************************************************************)
(* Properties of folders created under the watcher, under SpecFolder.      *)
(***************************************************************************)
\* C31: once createFolder has made a folder in the watched workspace, some
\* cycle publishes an event.
C31_FolderDetected ==
    (folders[WorkspaceHandle] # {}) ~> (\E i \in ScanSlots : scans[i].events # NoEvents)

(***************************************************************************)
(* Properties of the watcher on files nothing writes, under SpecQuiet.     *)
(***************************************************************************)
\* C34: the filesystem is never modified, so no compareSnapshots of any
\* cycle pushes an event, whatever the interleaving of startWatching,
\* forceCheck, the timer's ticks and stopWatching.
C34_QuietNoEvents ==
    [][\A i \in ScanSlots : Compare(i) => scans'[i].events = NoEvents]_vars

(***************************************************************************)
(* Properties of the listener set, under SpecListen.                       *)
(***************************************************************************)
Registered(ls) == {ls[k] : k \in DOMAIN ls}

\* C38: addListener leaves its listener registered once, removeListener
\* leaves it out, no other step changes the listeners, and a
\* compareSnapshots step calls every listener registered at that moment
\* once for each event and calls no other listener.
C38_ListenerSet ==
    [][/\ \A l \in Listeners :
              addListener(l) =>
                  /\ Registered(listeners') = Registered(listeners) \cup {l}
                  /\ Cardinality(Registered(listeners')) = Len(listeners')
       /\ \A l \in Listeners :
              removeListener(l) => Registered(listeners') = Registered(listeners) \ {l}
       /\ listeners' # listeners =>
              \E l \in Listeners : addListener(l) \/ removeListener(l)
       /\ \A i \in ScanSlots :
              Compare(i) =>
                  \A l \in Listeners :
                      scans'[i].got[l] =
                          IF l \in Registered(listeners)
                          THEN DiffEvents(lastSnapshot, scans[i].snap, clock)
                          ELSE NoEvents]_vars

\* C38 happens: a cycle has published events, which the one registered
\* listener received once each and the other listener did not receive.
C38_Witness ==
    \E i \in ScanSlots :
        /\ scans[i].pc = "update"
        /\ scans[i].events # NoEvents
        /\ \E l \in Listeners :
               /\ listeners = <<l>>
               /\ scans[i].got[l] = scans[i].events
               /\ \A other \in Listeners \ {l} : scans[i].got[other] = NoEvents

(***************************************************************************)
(* Properties of the tree across sessions, under SpecTree.                 *)
(***************************************************************************)
\* the nodes of a tree, without their children
Shallow(nodes) ==
    {[path |-> node.path, type |-> node.type] : node \in AllNodes(nodes)}

\* C36: the tree getFolderStructure returns, in a session that called
\* setWorkspace or in one that loaded the stored handle, has the nodes of
\* the tree built on the same directory with the workspace configuration
\* set.
C36_SameTreeAfterReload ==
    explorer.built =>
        \E entries \in Enumerations(explorer.root) :
            Shallow(explorer.last) = Shallow(buildFolderTree(TRUE, entries, <<>>))

(***************************************************************************)
(* Properties of word-processor files and of the writes' frame, under      *)
(* SpecFiles.                                                              *)
(***************************************************************************)
\* the file is not a container the structured decoding accepts
Undecodable(stored) == stored = <<>> \/ Head(stored) # "PK"

\* C32: readFile of a word-processor file whose structured decoding fails
\* returns a Document whose content is the file read as plain text, and
\* fails only when the plain-text read fails too.
C32_DecodeFallsBack ==
    [][\A path \in FilePaths, changed \in BOOLEAN :
          LET r == Resolved(explorer.root, path)
          IN  (/\ getFileExtension(Joined(path)) \in WordExtensions
               /\ r.error = "none"
               /\ r.entry.kind = "file"
               /\ Undecodable(r.entry.content)
               /\ readFile(TRUE, FALSE, changed, path))
                  => IF changed
                     THEN explorer'.done.error # "none"
                     ELSE /\ explorer'.done.error = "none"
                          /\ explorer'.done.document =
                                 [id |-> path, filePath |-> path,
                                  content |-> Text(r.entry.content)]]_vars

\* C32 happens: readFile has returned the plain text of r.docx, which
\* createFile wrote as plain text.
C32_Witness ==
    LET path == <<FileNames.rDocx>>
        r == Resolved(explorer.root, path)
    IN  /\ explorer.done.op = "readFile"
        /\ explorer.done.path = path
        /\ explorer.done.error = "none"
        /\ r.error = "none"
        /\ Undecodable(r.entry.content)
        /\ explorer.done.document.content = Text(r.entry.content)
        /\ explorer.done.document.content # <<>>

\* every file and folder of a directory: its path, its kind and its content
Listing(directory) ==
    {[path |-> p.path, kind |-> p.entry.kind, content |-> p.entry.content] :
        p \in Placed(directory, <<>>)}

\* C37: a successful saveFile or createFile changes the file at its path
\* and creates folders above it only, a successful createFolder creates its
\* folder and folders above it only, and a successful deleteItem removes the
\* entry at its path and the entries under it only.
C37_WritesTouchTarget ==
    [][LET done == explorer'.done
           before == Listing(explorer.root)
           after == Listing(explorer'.root)
           Above(x) == /\ x.kind = "directory"
                       /\ Len(x.path) < Len(done.path)
                       /\ StartsWith(done.path, x.path)
       IN  done.error = "none" =>
               CASE done.op \in {"saveFile", "createFile"} ->
                        /\ \A x \in before : x.path # done.path => x \in after
                        /\ \A y \in after \ before : y.path = done.path \/ Above(y)
                 [] done.op = "createFolder" ->
                        /\ before \subseteq after
                        /\ \A y \in after \ before :
                               y.kind = "directory" /\ StartsWith(done.path, y.path)
                 [] done.op = "deleteItem" ->
                        after = {x \in before : ~StartsWith(x.path, done.path)}
                 [] OTHER -> after = before]_vars

\* C37 happens: reports/q1.md has been written while r.docx existed, and
\* r.docx is still there.
C37_Witness ==
    /\ explorer.done.op \in {"saveFile", "createFile"}
    /\ explorer.done.error = "none"
    /\ explorer.done.path = <<FileNames.reports, FileNames.q1Md>>
    /\ ~explorer.done.wasEmpty
    /\ Resolved(explorer.root, <<FileNames.rDocx>>).error = "none"
    /\ Resolved(explorer.root, explorer.done.path).error = "none"

(***************************************************************************)
(* Properties of the encode direction, under SpecEncode.                   *)
(***************************************************************************)
\* the line is blank: it holds nothing but white space
Blank(line) == \A k \in DOMAIN line : line[k] = " "

\* the marker of a heading of that level: as many '#' and a space
Marker(level) == [k \in 1..(level + 1) |-> IF k <= level THEN "#" ELSE " "]

\* C33: saveFile of a word-processor file makes one paragraph of every line
\* of the content, in order: an empty paragraph of a blank line, a heading
\* of level 1, 2 or 3 with the text after the marker of a line that begins
\* with one, two or three '#' and a space, and a plain paragraph with the
\* line's text of every other line.
C33_LineByLine ==
    (explorer.done.op = "saveFile" /\ explorer.done.path = <<FileNames.rDocx>>) =>
        LET lines == split(explorer.done.content)
            paragraphs == explorer.done.paragraphs
        IN  /\ explorer.done.error = "none"
            /\ Len(paragraphs) = Len(lines)
            /\ \A k \in DOMAIN lines :
                   LET line == lines[k]
                       levels == {n \in 1..3 : StartsWith(line, Marker(n))}
                   IN  IF Blank(line) THEN paragraphs[k] = Paragraph(0, <<>>)
                       ELSE IF levels # {}
                       THEN \E n \in levels :
                               paragraphs[k] =
                                   Paragraph(n, <<SubSeq(line, n + 2, Len(line))>>)
                       ELSE paragraphs[k] = Paragraph(0, <<line>>)

\* C39: an AI task made by a selection-toolbar action is 'completed' or 'error'
\* once the AI request of that action has returned or thrown, so
\* getRunningTasks stops listing it.
C39_TasksLeaveRunning ==
    \A t \in toolbar.answered :
        /\ toolbar.tasks[t] \in {"completed", "error"}
        /\ t \notin getRunningTasks(toolbar.tasks)

====
